---- MODULE Spec2Model ----
(***************************************************************************)
(* State-machine model of the RDG event bot.                               *)
(*                                                                         *)
(*  - the PostgreSQL-backed bot (src/unnamed/part_007, lines 1237-2980):   *)
(*    handleRSVP, the select-menu handlers, scheduleThreadOpening,         *)
(*    scheduleThreadDeletion and the ready handler;                        *)
(*  - the first, in-memory bot (src/index.js): assignClassToUser and       *)
(*    handleRSVP;                                                          *)
(*  - the dashboard client's lock calls (src/bot/web/static/main-v2.js)    *)
(*    against the edit-lock manager of spec section 4.3.                   *)
(*                                                                         *)
(* One Event is modelled; operations on different Events share no state.   *)
(***************************************************************************)
EXTENDS Integers, Sequences, FiniteSets, TLC

VARIABLES
    db,            \* the row of the Event in the "events" table, or NoRow
    events,        \* events[eventId], the in-memory cache entry, or NoRow
    guildThreads,  \* ids of the threads that exist in the guild (Discord side)
    threadMembers, \* members of the discussion thread (Discord side)
    memberRoles,   \* Discord role ids each guild member holds
    inflight,      \* per user: the interaction handler awaiting its UPDATE
    roleMenu,      \* per user: role options of the select menus shown so far
    classMenu,     \* per user: class options of the select menus shown so far
    interactions,  \* number of interactions received so far
    acked,         \* per user: the attendee record of the last committed UPDATE
    selection,     \* per user: history of the last button or menu interaction
    indexEvent,    \* events[eventId] of the in-memory bot of src/index.js
    now,           \* moment.utc(), in minutes
    up,            \* the bot process is running
    timers,        \* the pending setTimeout callbacks of the process
    nextThreadId,  \* the id Discord gives the next thread it creates
    openLog,       \* history: the threads created by the open callback
    closeLog,      \* history: the threads deleted by the close callback
    recovery,      \* history: what the last run of ready found
    attempts,      \* history: the runs of the timer callbacks
    deletion,      \* history: the deletion of the Event
    locks,         \* the edit-lock manager's lock records of the Event
    lockClock,     \* the edit-lock manager's clock
    client,        \* per operator: the dashboard page's lock state
    lastAcq,       \* per operator: the answer to the last POST .../lock
    lastCall,      \* per operator: history of the last other call of the page
    attending,     \* the members the dashboard server's roster has as Attending
    squads,        \* the squads of the Event the dashboard server stores
    currentSquads, \* per operator: the page's currentSquads
    builds,        \* history: the last two runs of build-squads
    moved,         \* history: the last manual move of a member
    edits,         \* roster edits and roster changes so far
    page,          \* one dashboard page: dropdown, lockInterval, running handlers
    eventLocks     \* per Event of the dropdown: the manager's lock records

storeVars == <<db, events>>
discordVars == <<guildThreads, threadMembers>>
rsvpVars == <<memberRoles, inflight, roleMenu, classMenu, interactions, acked,
              selection>>
schedVars == <<now, up, timers, nextThreadId, openLog, closeLog, recovery,
               attempts, deletion>>
squadVars == <<attending, squads, currentSquads, builds, moved, edits>>
lockVars == <<locks, lockClock, client, lastAcq, lastCall,
              attending, squads, currentSquads, builds, moved, edits,
              page, eventLocks>>
vars == <<db, events, guildThreads, threadMembers,
          memberRoles, inflight, roleMenu, classMenu, interactions, acked,
          selection,
          indexEvent,
          now, up, timers, nextThreadId, openLog, closeLog, recovery,
          attempts, deletion,
          locks, lockClock, client, lastAcq, lastCall,
          attending, squads, currentSquads, builds, moved, edits,
          page, eventLocks>>

-----------------------------------------------------------------------------
(* Values *)

Null == "null"                    \* null in a string-valued field
NoObj == [undefined |-> TRUE]     \* undefined where an object is expected
NoRow == [exists |-> FALSE]       \* no row / no cache entry
NoThread == 0                     \* null thread id (thread ids are 1, 2, ...)
NoTime == -1                      \* null / undefined where a time is expected
NoRecovery == [ran |-> FALSE]     \* ready has run once only, at the first start
NoDeletion == [done |-> FALSE]    \* the Event has not been deleted
NoSelection == [menu |-> "none"]  \* the user has used no button and no menu

Users == {"P", "Q"}

\* Interactions (button clicks and menu selections) a behaviour contains.
MaxInteractions == 5

\* Discord role ids read from the environment (part_007:1308-1317).
SL_CERTIFIED_ROLE_ID == "sl"
TC_CERTIFIED_ROLE_ID == "tc"
CMDR_CERTIFIED_ROLE_ID == "cmdr"
RECON_CERTIFIED_ROLE_ID == "recon"
\* The role id an access-restricted Event names in restrictedRoles.
EventRoleId == "member"

\* defaultPrimaryRoles (part_007:1729-1751).  The ungated Infantry classes
\* all behave alike; Medic and Rifleman stand for them.
defaultPrimaryRoles ==
    << [primaryRole |-> "Commander", emoji |-> "crown", classes |-> <<>>],
       [primaryRole |-> "Infantry", emoji |-> "shield",
        classes |-> << [className |-> "Medic", emoji |-> "patch"],
                       [className |-> "Officer", emoji |-> "star"],
                       [className |-> "Rifleman", emoji |-> "target"] >>],
       [primaryRole |-> "Armour", emoji |-> "helmet",
        classes |-> << [className |-> "Tank Commander", emoji |-> "helmet"],
                       [className |-> "Crewman", emoji |-> "wrench"] >>],
       [primaryRole |-> "Recon", emoji |-> "scope", classes |-> <<>>] >>

SeqToSet(s) == {s[i] : i \in 1..Len(s)}

RoleNames(roles) == {roles[i].primaryRole : i \in 1..Len(roles)}

\* event.roles.find(r => r.primaryRole === name); NoObj when absent.
FindRole(roles, name) ==
    IF \E i \in 1..Len(roles) : roles[i].primaryRole = name
    THEN roles[CHOOSE i \in 1..Len(roles) :
                  /\ roles[i].primaryRole = name
                  /\ \A j \in 1..(i-1) : roles[j].primaryRole # name]
    ELSE NoObj

\* primaryRoleObj.classes.find(c => c.className === name); NoObj when absent.
FindClass(classes, name) ==
    IF \E i \in 1..Len(classes) : classes[i].className = name
    THEN classes[CHOOSE i \in 1..Len(classes) :
                  /\ classes[i].className = name
                  /\ \A j \in 1..(i-1) : classes[j].className # name]
    ELSE NoObj

ClassNames(classes) == {classes[i].className : i \in 1..Len(classes)}

\* attendees.findIndex(a => a.userId === userId); 0 stands for -1.
FindIndex(attendees, userId) ==
    IF \E i \in 1..Len(attendees) : attendees[i].userId = userId
    THEN CHOOSE i \in 1..Len(attendees) :
                  /\ attendees[i].userId = userId
                  /\ \A j \in 1..(i-1) : attendees[j].userId # userId
    ELSE 0

Idle == [pc |-> "idle"]

-----------------------------------------------------------------------------
(* The Event record: the columns of the "events" row and the fields of the *)
(* cache entry (part_007:1753-1770, 2870-2887).                            *)

NewAttendee(userId, rsvpStatus) ==
    [userId |-> userId, rsvpStatus |-> rsvpStatus,
     primaryRole |-> Null, className |-> Null, emoji |-> Null]

newEventData(date, startTime, endTime, restrictedRoleIds, threadOpenHoursBefore) ==
    [exists |-> TRUE,
     date |-> date, startTime |-> startTime, endTime |-> endTime,
     restrictedRoles |-> restrictedRoleIds,
     attendees |-> <<>>,
     roles |-> defaultPrimaryRoles,
     threadOpenHoursBefore |-> threadOpenHoursBefore,
     messageId |-> 0,
     threadId |-> NoThread,
     threadOpenedAt |-> NoTime,
     threadRosterMessageId |-> 0]

\* The object built from a SELECT row in handleRSVP, the select-menu handler,
\* the edit-modal submission and ready (part_007:1911-1923, 2533-2545,
\* 2446-2458, 2913-2925): the row's start_time and end_time are not mapped to
\* startTime and endTime, which are therefore undefined on the object.
MapRow(row) == [row EXCEPT !.startTime = NoTime, !.endTime = NoTime]

\* A test every member passes.
HasRole_any(roles, roleId) == TRUE

\* member.roles.cache.has(roleId)
HasRole(roles, roleId) == roleId \in roles

-----------------------------------------------------------------------------
(* handleRSVP (part_007:1901-2105)                                         *)

\* The switch of part_007:1963-1976; the buttons carry these three ids.
RawStatuses == {"accept", "tentative", "decline"}
StatusOfButton(raw) ==
    CASE raw = "accept" -> "Attending"
      [] raw = "tentative" -> "Tentative"
      [] raw = "decline" -> "Declined"

\* part_007:1978-1986: the status is stored; Tentative and Declined clear
\* role, class and emoji when a role or a class was set.
SetStatus(attendee, newRsvpStatus) ==
    LET a == [attendee EXCEPT !.rsvpStatus = newRsvpStatus]
    IN IF /\ newRsvpStatus \in {"Tentative", "Declined"}
          /\ (a.primaryRole # Null \/ a.className # Null)
       THEN [a EXCEPT !.primaryRole = Null, !.className = Null, !.emoji = Null]
       ELSE a

\* part_007:1991-2019: the options of the primary-role menu.  The four
\* *_CERTIFIED_ROLE_ID settings are configured.
rolesForPrimarySelection(roles, member) ==
    {roles[i].primaryRole : i \in
        {j \in 1..Len(roles) :
            /\ (roles[j].primaryRole = "Commander"
                    => HasRole(member, CMDR_CERTIFIED_ROLE_ID))
            /\ (roles[j].primaryRole = "Recon"
                    => HasRole(member, RECON_CERTIFIED_ROLE_ID))}}

\* The handler up to its UPDATE: what it leaves in the cache, the array it
\* is about to write, the menu it shows and what it answers.
handleRSVP_Result(row, member, userId, raw) ==
    IF row = NoRow
    THEN [events |-> events, next |-> Idle, roleOptions |-> {}, reply |-> "NotFound"]
    ELSE
    LET event == MapRow(row)
        forbidden == /\ event.restrictedRoles # {}
                     /\ \A r \in event.restrictedRoles : ~HasRole(member, r)
        attendeeIndex == FindIndex(event.attendees, userId)
        isNew == attendeeIndex = 0
        old == IF isNew THEN NewAttendee(userId, Null)
               ELSE event.attendees[attendeeIndex]
        newRsvpStatus == StatusOfButton(raw)
        attendee == SetStatus(old, newRsvpStatus)
        currentAttendees ==
            IF isNew THEN Append(event.attendees, attendee)
            ELSE [event.attendees EXCEPT ![attendeeIndex] = attendee]
        options == rolesForPrimarySelection(event.roles, member)
        prompt == newRsvpStatus = "Attending" /\ attendee.primaryRole = Null
    IN IF forbidden
       THEN [events |-> event, next |-> Idle, roleOptions |-> {}, reply |-> "Forbidden"]
       ELSE [\* an existing attendee is the object the cached array holds; a
             \* new one is pushed on the copy only
             events |-> IF isNew THEN event
                        ELSE [event EXCEPT !.attendees = currentAttendees],
             next |-> [pc |-> "write", kind |-> "rsvp", userId |-> userId,
                       attendees |-> currentAttendees,
                       status |-> newRsvpStatus,
                       threadId |-> event.threadId,
                       threadOpenedAt |-> event.threadOpenedAt],
             roleOptions |-> IF prompt THEN options ELSE {},
             reply |-> IF ~prompt THEN "Confirmed"
                       ELSE IF options # {} THEN "RolePrompt" ELSE "NoRoles"]

\* The record of userId in an attendees array, NoObj if there is none.
AttendeeOf(attendees, userId) ==
    LET i == FindIndex(attendees, userId)
    IN IF i = 0 THEN NoObj ELSE attendees[i]

\* What is kept of an interaction when its handler starts: the button or
\* menu and the value, the first answer, the member's roles, the attendee
\* record the row held, the thread the row named as open and whether the
\* member was in it.
Interaction(userId, menu, value, reply, pending) ==
    [menu |-> menu, value |-> value, reply |-> reply,
     member |-> memberRoles[userId],
     before |-> IF db = NoRow THEN NoObj ELSE AttendeeOf(db.attendees, userId),
     venue |-> IF db = NoRow \/ db.threadOpenedAt = NoTime THEN NoThread
               ELSE db.threadId,
     inVenue |-> db # NoRow /\ <<db.threadId, userId>> \in threadMembers,
     state |-> IF pending THEN "pending" ELSE "done",
     stored |-> NoObj, writes |-> 0, side |-> "none", error |-> FALSE]

handleRSVP(userId, raw) ==
    /\ inflight[userId].pc = "idle"
    /\ interactions < MaxInteractions
    /\ LET r == handleRSVP_Result(db, memberRoles[userId], userId, raw)
       IN /\ events' = r.events
          /\ inflight' = [inflight EXCEPT ![userId] = r.next]
          /\ roleMenu' = [roleMenu EXCEPT ![userId] = @ \cup r.roleOptions]
          /\ interactions' = interactions + 1
          /\ selection' = [selection EXCEPT ![userId] =
                Interaction(userId, "rsvp", raw, r.reply, r.next # Idle)]
    /\ UNCHANGED <<db, guildThreads, threadMembers, memberRoles, classMenu, acked>>
    /\ UNCHANGED <<indexEvent, schedVars, lockVars>>

-----------------------------------------------------------------------------
(* The select-menu branch of interactionCreate (part_007:2518-2698)        *)

\* part_007:2581-2600: the class options offered after a primary role.
classesForSelection(roles, member, selectedValue) ==
    LET primaryRoleObj == FindRole(roles, selectedValue)
        all == IF primaryRoleObj = NoObj THEN {} ELSE ClassNames(primaryRoleObj.classes)
    IN IF selectedValue = "Infantry"
       THEN IF HasRole(member, SL_CERTIFIED_ROLE_ID) THEN all ELSE all \ {"Officer"}
       ELSE IF selectedValue = "Armour"
       THEN IF HasRole(member, TC_CERTIFIED_ROLE_ID) THEN all ELSE all \ {"Tank Commander"}
       ELSE all

RoleEmoji(roles, name, otherwise) ==
    LET primaryRoleObj == FindRole(roles, name)
    IN IF primaryRoleObj = NoObj THEN otherwise ELSE primaryRoleObj.emoji

\* part_007:2572-2653: select_role_<eventId>.
select_role(attendee, roles, member, selectedValue) ==
    LET a == [attendee EXCEPT !.primaryRole = selectedValue, !.className = Null,
                              !.emoji = Null, !.rsvpStatus = "Attending"]
        classes == classesForSelection(roles, member, selectedValue)
    IN IF selectedValue \in {"Infantry", "Armour"}
       THEN IF selectedValue = "Armour"
            THEN \* the return of part_007:2601 leaves the handler here
                 [attendee |-> a, returned |-> TRUE, classOptions |-> {}, reply |-> "None"]
            ELSE IF classes # {}
            THEN [attendee |-> a, returned |-> FALSE, classOptions |-> classes,
                  reply |-> "ClassPrompt"]
            ELSE [attendee |-> [a EXCEPT !.emoji = RoleEmoji(roles, selectedValue, a.emoji)],
                  returned |-> FALSE, classOptions |-> {}, reply |-> "Confirmed"]
       ELSE [attendee |-> [a EXCEPT !.emoji = RoleEmoji(roles, selectedValue, a.emoji)],
             returned |-> FALSE, classOptions |-> {}, reply |-> "Confirmed"]

\* A class selection that keeps the emoji of the primary role.
select_class_roleEmoji(attendee, roles, selectedValue) ==
    [attendee |-> [attendee EXCEPT !.className = selectedValue,
                                   !.rsvpStatus = "Attending",
                                   !.emoji = RoleEmoji(roles, attendee.primaryRole, Null)],
     returned |-> FALSE, classOptions |-> {}, reply |-> "Confirmed"]

\* part_007:2655-2677: select_class_<eventId>.
select_class(attendee, roles, selectedValue) ==
    LET a == [attendee EXCEPT !.className = selectedValue, !.rsvpStatus = "Attending"]
        primaryRoleObj == FindRole(roles, a.primaryRole)
        classObj == IF primaryRoleObj = NoObj THEN NoObj
                    ELSE FindClass(primaryRoleObj.classes, selectedValue)
    IN [attendee |-> IF classObj = NoObj THEN a ELSE [a EXCEPT !.emoji = classObj.emoji],
        returned |-> FALSE, classOptions |-> {}, reply |-> "Confirmed"]

selectMenu_Result(row, member, userId, menu, selectedValue) ==
    IF row = NoRow
    THEN [events |-> events, next |-> Idle, classOptions |-> {}, reply |-> "NotFound"]
    ELSE
    LET event == MapRow(row)
        attendeeIndex == FindIndex(event.attendees, userId)
    IN IF attendeeIndex = 0
       THEN \* part_007:2562 reads userId, which this scope does not define:
            \* the ReferenceError is caught at part_007:2699
            [events |-> event, next |-> Idle, classOptions |-> {}, reply |-> "Error"]
       ELSE
       LET sel == IF menu = "select_role"
                  THEN select_role(event.attendees[attendeeIndex], event.roles,
                                   member, selectedValue)
                  ELSE select_class(event.attendees[attendeeIndex], event.roles,
                                    selectedValue)
           currentAttendees == [event.attendees EXCEPT ![attendeeIndex] = sel.attendee]
       IN [events |-> [event EXCEPT !.attendees = currentAttendees],
           next |-> IF sel.returned THEN Idle
                    ELSE [pc |-> "write", kind |-> "select", userId |-> userId,
                          attendees |-> currentAttendees,
                          status |-> "Attending",
                          threadId |-> event.threadId,
                          threadOpenedAt |-> event.threadOpenedAt],
           classOptions |-> sel.classOptions,
           reply |-> sel.reply]

\* A select-menu interaction carries one of the options of a menu that was
\* shown to this user; a shown menu stays usable.
selectMenu(userId, menu, selectedValue) ==
    /\ inflight[userId].pc = "idle"
    /\ interactions < MaxInteractions
    /\ \/ menu = "select_role" /\ selectedValue \in roleMenu[userId]
       \/ menu = "select_class" /\ selectedValue \in classMenu[userId]
    /\ LET r == selectMenu_Result(db, memberRoles[userId], userId, menu, selectedValue)
       IN /\ events' = r.events
          /\ inflight' = [inflight EXCEPT ![userId] = r.next]
          /\ classMenu' = [classMenu EXCEPT ![userId] = @ \cup r.classOptions]
          /\ interactions' = interactions + 1
          /\ selection' = [selection EXCEPT ![userId] =
                Interaction(userId, menu, selectedValue, r.reply, r.next # Idle)]
    /\ UNCHANGED <<db, guildThreads, threadMembers, memberRoles, roleMenu, acked>>
    /\ UNCHANGED <<indexEvent, schedVars, lockVars>>

\* An administrator takes a Discord role from a member.  The handlers read
\* the member's roles anew at each interaction (guild.members.fetch).
guildMemberUpdate(userId, roleId) ==
    /\ roleId \in memberRoles[userId]
    /\ memberRoles' = [memberRoles EXCEPT ![userId] = @ \ {roleId}]
    /\ UNCHANGED <<storeVars, discordVars, indexEvent, schedVars, lockVars>>
    /\ UNCHANGED <<inflight, roleMenu, classMenu, interactions, acked, selection>>

-----------------------------------------------------------------------------
(* The UPDATE that ends both handlers (part_007:2054-2104, 2679-2697)      *)

\* UPDATE events SET attendees = $1 WHERE id = $2, with the whole array the
\* handler computed from its own SELECT; ok = FALSE is a query that throws.
updateAttendees(h, ok) ==
    /\ db' = IF ok /\ db # NoRow THEN [db EXCEPT !.attendees = h.attendees] ELSE db
    /\ events' = IF ok /\ events # NoRow
                 THEN [events EXCEPT !.attendees = h.attendees] ELSE events
    /\ acked' = IF ok /\ db # NoRow
                THEN [acked EXCEPT ![h.userId] = AttendeeOf(h.attendees, h.userId)]
                ELSE acked

\* What can go wrong after the UPDATE: nothing, the call that adds the
\* member to the thread or removes it throws, the edit of a roster message
\* throws.
SideFailures == {"none", "member", "render"}

\* part_007:2068-2091: handleRSVP mirrors the status in the open thread.  It
\* calls thread.members.add for an Attending user who is not a member and
\* thread.members.remove for another user who is one.
threadCall(h) ==
    IF /\ h.kind = "rsvp"
       /\ h.threadId # NoThread /\ h.threadOpenedAt # NoTime
       /\ h.threadId \in guildThreads
    THEN IF h.status = "Attending"
         THEN IF <<h.threadId, h.userId>> \in threadMembers THEN "none" ELSE "add"
         ELSE IF <<h.threadId, h.userId>> \in threadMembers THEN "remove" ELSE "none"
    ELSE "none"

\* A synchronisation that adds members and never removes one.
syncThreadMember_addOnly(h) ==
    IF threadCall(h) = "add" THEN threadMembers \cup {<<h.threadId, h.userId>>}
    ELSE threadMembers

syncThreadMember(h) ==
    CASE threadCall(h) = "add" -> threadMembers \cup {<<h.threadId, h.userId>>}
      [] threadCall(h) = "remove" -> threadMembers \ {<<h.threadId, h.userId>>}
      [] OTHER -> threadMembers

\* How the handler ends after a side effect failed.  The catch of
\* part_007:2092-2095 reads thread.id, and thread is a const of the try
\* block: the ReferenceError leaves handleRSVP and reaches the catch of
\* part_007:2699, which answers that an unexpected error occurred.  The
\* roster updates catch their own errors (part_007:1425-1428, 1542-1545).
sideError(h, side) == side = "member" /\ threadCall(h) # "none"

\* The end of both handlers: the UPDATE, the thread member, the rosters.
\* ok = FALSE is an UPDATE that throws.
finishInteraction(userId, ok, side) ==
    /\ inflight[userId].pc = "write"
    /\ updateAttendees(inflight[userId], ok)
    /\ threadMembers' = IF side = "member" THEN threadMembers
                        ELSE syncThreadMember(inflight[userId])
    /\ selection' =
            [selection EXCEPT
                ![userId].state = IF ok THEN "done" ELSE "failed",
                ![userId].stored =
                    IF ok /\ db # NoRow
                    THEN AttendeeOf(inflight[userId].attendees, userId)
                    ELSE NoObj,
                ![userId].writes = 1,
                ![userId].side =
                    IF side = "member" /\ threadCall(inflight[userId]) = "none"
                    THEN "none" ELSE side,
                ![userId].error = sideError(inflight[userId], side)]
    /\ inflight' = [inflight EXCEPT ![userId] = Idle]
    /\ UNCHANGED <<guildThreads, memberRoles, roleMenu, classMenu, interactions>>
    /\ UNCHANGED <<indexEvent, schedVars, lockVars>>

-----------------------------------------------------------------------------
(* Time.  A moment is a count of minutes since 00:00 of day 0; an hour has  *)
(* MinutesPerHour minutes and a day HoursPerDay hours.  A date is a day     *)
(* number and a time of day ("HH:mm") a minute of the day.  Delays stay     *)
(* below the longest delay setTimeout accepts.                              *)

MinutesPerHour == 2
HoursPerDay == 2
MinutesPerDay == MinutesPerHour * HoursPerDay

MaxTime == 14      \* the clock stops here
MaxDate == 2       \* Events take place on day 1 .. MaxDate
MaxLead == 1       \* threadOpenHoursBefore is 0 .. MaxLead
MaxThreads == 2    \* threads Discord creates in a behaviour
MaxAttempts == 4   \* timer callbacks that run in a behaviour

Dates == 1..MaxDate
\* The Events start at 00:00 or 01:00 and end with the last minute of the day.
StartTimes == {0, MinutesPerHour}
EndTimes == {MinutesPerDay - 1}
LeadHours == 0..MaxLead
\* What the text inputs of the two modals accept as a time: any "HH:mm".
TimesOfDay == 0..(MinutesPerDay - 1)

Max(a, b) == IF a >= b THEN a ELSE b

\* moment.utc(`${date} ${time}`, 'DD-MM-YYYY HH:mm').  The parse is
\* forgiving: with time undefined the text is "<date> undefined", the date
\* is read and the hour and minute stay 0.
momentUtc(date, time) == date * MinutesPerDay + (IF time = NoTime THEN 0 ELSE time)

\* .startOf('day')
startOfDay(t) == t - (t % MinutesPerDay)

\* part_007:1557-1558, 2931-2932: eventDateTime minus threadOpenHoursBefore hours.
openTimeOf(eventDetails) ==
    momentUtc(eventDetails.date, eventDetails.startTime)
        - eventDetails.threadOpenHoursBefore * MinutesPerHour

\* part_007:1665-1667, 2952-2954: 00:01 of the day after the Event ends.
deleteTimeOf(eventDetails) ==
    startOfDay(momentUtc(eventDetails.date, eventDetails.endTime) + MinutesPerDay) + 1

scheduleThreadOpening_unclamped(eventDetails) ==
    [kind |-> "open", at |-> openTimeOf(eventDetails),
     date |-> eventDetails.date, endTime |-> eventDetails.endTime,
     threadId |-> NoThread]

\* scheduleThreadOpening (part_007:1555-1565, 1652): the timer it sets.  The
\* callback keeps eventDetails, the object that was the cache entry when the
\* timer was set; of it the callback reads date and endTime.
scheduleThreadOpening(eventDetails) ==
    [kind |-> "open", at |-> now + Max(0, openTimeOf(eventDetails) - now),
     date |-> eventDetails.date, endTime |-> eventDetails.endTime,
     threadId |-> NoThread]

\* scheduleThreadDeletion (part_007:1663-1674, 1695): the timer it sets.
scheduleThreadDeletion(eventDetails, threadId) ==
    [kind |-> "close", at |-> now + Max(0, deleteTimeOf(eventDetails) - now),
     date |-> eventDetails.date, endTime |-> eventDetails.endTime,
     threadId |-> threadId]

Attending(attendees) ==
    {attendees[i].userId : i \in {j \in 1..Len(attendees) :
                                      attendees[j].rsvpStatus = "Attending"}}

-----------------------------------------------------------------------------
(* The thread scheduler (part_007:1555-1696), handleCreateEvent, the edit  *)
(* modal and the start of the process.                                     *)

\* handleCreateEvent (part_007:1711-1891) with the channel present and the
\* INSERT and the post of the Event message succeeding.
handleCreateEvent(date, startTime, endTime, threadOpenHoursBefore) ==
    /\ up
    /\ db = NoRow
    /\ LET created == [newEventData(date, startTime, endTime, {},
                                    threadOpenHoursBefore) EXCEPT !.messageId = 1]
       IN /\ db' = created
          /\ events' = created
          /\ timers' = timers \cup {scheduleThreadOpening(created)}
    /\ UNCHANGED <<discordVars, rsvpVars, indexEvent, lockVars>>
    /\ UNCHANGED <<now, up, nextThreadId, openLog, closeLog, recovery>>
    /\ UNCHANGED <<attempts, deletion>>

\* What throws in handleCreateEvent after the INSERT: the post of the Event's
\* message (part_007:1849-1858) or the UPDATE of message_id (part_007:1862).
CreateFailures == {"post", "save"}

\* How the catch of part_007:1868-1890 ends: the row and the cache entry are
\* deleted, or the followUp that reports the error throws, or the DELETE
\* throws; the inner catch only logs.
CleanupOutcomes == {"done", "reply", "delete"}

\* handleCreateEvent (part_007:1711-1891) with a statement after the INSERT
\* throwing: scheduleThreadOpening, the last statement of the try, is not
\* reached, and the catch cleans up (part_007:1873-1885: the followUp, then
\* the DELETE, then the cache entry).
handleCreateEvent_sendError(date, startTime, endTime, leadHours, fail, cleanup) ==
    /\ up
    /\ db = NoRow
    /\ Len(attempts) < MaxAttempts
    /\ LET created == newEventData(date, startTime, endTime, {}, leadHours)
           left == IF cleanup = "done" THEN NoRow ELSE created
       IN /\ db' = left
          /\ events' = left
    /\ attempts' = Append(attempts,
            [kind |-> "create", venue |-> NoThread, threadId |-> NoThread,
             steps |-> <<fail, cleanup>>, outcome |-> "error"])
    /\ UNCHANGED <<discordVars, rsvpVars, indexEvent, lockVars>>
    /\ UNCHANGED <<now, up, timers, nextThreadId, openLog, closeLog, recovery>>
    /\ UNCHANGED deletion

\* A clearing that forgets the thread id and keeps the time it was opened.
ClearedThread_idOnly(event) ==
    [event EXCEPT !.threadId = NoThread, !.threadRosterMessageId = 0]

ClearedThread(event) ==
    [event EXCEPT !.threadId = NoThread, !.threadOpenedAt = NoTime,
                  !.threadRosterMessageId = 0]

\* The steps of the callback of scheduleThreadOpening, in the order of its
\* statements (part_007:1600-1646): threads.create; the cache entry's thread
\* fields; UPDATE thread_id, thread_opened_at; the roster placeholder and its
\* id; the Attending members; scheduleThreadDeletion.
OpenSteps == <<"create", "cache", "persist", "roster", "members", "timer">>

\* What can go wrong in the callback: nothing, threads.create throws, the
\* UPDATE of part_007:1613 throws, thread.send of part_007:1619 throws.
OpenFailures == {"none", "create", "update", "send"}

OpenReached_timerFirst(fail, cached) ==
    IF fail = "create" THEN <<>>
    ELSE IF ~cached \/ fail # "none" THEN <<"create", "timer">>
    ELSE <<"create", "timer", "cache", "persist", "roster", "members">>

\* The steps the callback completes before the catch of part_007:1648 ends
\* it.  Without a cache entry the assignment of part_007:1610 throws.
OpenReached(fail, cached) ==
    SubSeq(OpenSteps, 1,
           IF fail = "create" THEN 0
           ELSE IF ~cached THEN 1
           ELSE IF fail = "update" THEN 2
           ELSE IF fail = "send" THEN 3
           ELSE Len(OpenSteps))

Reached(steps, step) == \E i \in 1..Len(steps) : steps[i] = step

\* The thread id the cache entry holds, NoThread without a cache entry.
VenueOf(event) == IF event = NoRow THEN NoThread ELSE event.threadId

\* The callback of scheduleThreadOpening (part_007:1565-1652), the channels
\* present.
threadOpeningCallback(t, fail) ==
    /\ up
    /\ t \in timers /\ t.kind = "open" /\ t.at <= now
    /\ nextThreadId <= MaxThreads /\ Len(attempts) < MaxAttempts
    /\ LET thread == nextThreadId
           steps == OpenReached(fail, events # NoRow)
       IN /\ nextThreadId' = IF Reached(steps, "create") THEN thread + 1 ELSE thread
          /\ guildThreads' = IF Reached(steps, "create")
                             THEN guildThreads \cup {thread} ELSE guildThreads
          /\ openLog' = IF Reached(steps, "create")
                        THEN Append(openLog, [at |-> now, threadId |-> thread])
                        ELSE openLog
          /\ events' = IF ~Reached(steps, "cache") THEN events
                       ELSE [events EXCEPT
                                !.threadId = thread, !.threadOpenedAt = now,
                                !.threadRosterMessageId =
                                    IF Reached(steps, "roster") THEN thread ELSE @]
          /\ db' = IF Reached(steps, "persist") /\ db # NoRow
                   THEN [db EXCEPT !.threadId = thread, !.threadOpenedAt = now,
                                   !.threadRosterMessageId =
                                       IF Reached(steps, "roster") THEN thread ELSE 0]
                   ELSE db
          /\ threadMembers' =
                IF Reached(steps, "members")
                THEN threadMembers \cup {<<thread, u>> : u \in Attending(events.attendees)}
                ELSE threadMembers
          /\ timers' = (timers \ {t}) \cup
                (IF Reached(steps, "timer")
                 THEN {scheduleThreadDeletion(t, thread)} ELSE {})
          /\ attempts' = Append(attempts,
                [kind |-> "open", venue |-> VenueOf(events),
                 threadId |-> IF Reached(steps, "create") THEN thread ELSE NoThread,
                 steps |-> steps,
                 outcome |-> IF Len(steps) = Len(OpenSteps) THEN "done" ELSE "error"])
    /\ UNCHANGED <<rsvpVars, indexEvent, lockVars, now, up, closeLog, recovery, deletion>>

CloseOutcome_strict(found, cached, ok) ==
    IF found /\ cached /\ ok THEN "deleted" ELSE "error"

\* How the callback of scheduleThreadDeletion ends (part_007:1674-1695): the
\* thread is not in the cache of channels (the else of part_007:1688), or it
\* is deleted and the fields are cleared, or a statement throws into the
\* catch of part_007:1691 (the cache entry is missing, the UPDATE throws).
CloseOutcome(found, cached, ok) ==
    IF ~found THEN "notFound"
    ELSE IF cached /\ ok THEN "deleted" ELSE "error"

\* The callback of scheduleThreadDeletion (part_007:1674-1695).
threadDeletionCallback(t, ok) ==
    /\ up
    /\ t \in timers /\ t.kind = "close" /\ t.at <= now
    /\ Len(attempts) < MaxAttempts
    /\ timers' = timers \ {t}
    /\ attempts' = Append(attempts,
            [kind |-> "close", venue |-> VenueOf(events),
             threadId |-> t.threadId, steps |-> <<>>,
             outcome |-> CloseOutcome(t.threadId \in guildThreads, events # NoRow, ok)])
    /\ IF t.threadId \in guildThreads
       THEN /\ guildThreads' = guildThreads \ {t.threadId}
            /\ threadMembers' = {m \in threadMembers : m[1] # t.threadId}
            /\ closeLog' = Append(closeLog, [at |-> now, threadId |-> t.threadId])
            /\ events' = IF events = NoRow THEN events ELSE ClearedThread(events)
            /\ db' = IF ok /\ events # NoRow /\ db # NoRow THEN ClearedThread(db) ELSE db
       ELSE UNCHANGED <<guildThreads, threadMembers, closeLog, events, db>>
    /\ UNCHANGED <<rsvpVars, indexEvent, lockVars, now, up, nextThreadId, openLog, recovery>>
    /\ UNCHANGED deletion

\* The submission of editEventModal (part_007:2433-2507) by the creator of
\* the Event.  ok = FALSE is an UPDATE that throws.
editEventModal(newDate, newStartTime, newEndTime, ok) ==
    /\ up
    /\ db # NoRow
    /\ events' = IF ok
                 THEN [MapRow(db) EXCEPT !.date = newDate, !.startTime = newStartTime,
                                         !.endTime = newEndTime]
                 ELSE MapRow(db)
    /\ db' = IF ok
             THEN [db EXCEPT !.date = newDate, !.startTime = newStartTime,
                             !.endTime = newEndTime]
             ELSE db
    /\ UNCHANGED <<discordVars, rsvpVars, indexEvent, schedVars, lockVars>>

\* What the deletion of the Event leaves behind: the time, and how many
\* threads had been created and deleted and how many callbacks had run.
Deleted ==
    [done |-> TRUE, at |-> now, opens |-> Len(openLog), closes |-> Len(closeLog),
     attempts |-> Len(attempts)]

\* The delete_event_ button (part_007:2279-2347) pressed by the creator of
\* the Event: the row and the cache entry are deleted, then the Event's
\* message (whose messageDelete finds no row).  No timer is cleared: the
\* handles setTimeout returns are not kept.  ok = FALSE is a DELETE that
\* throws.
delete_event(ok) ==
    /\ up
    /\ db # NoRow
    /\ db' = IF ok THEN NoRow ELSE db
    /\ events' = IF ok THEN NoRow ELSE events
    /\ deletion' = IF ok THEN Deleted ELSE deletion
    /\ UNCHANGED <<discordVars, rsvpVars, indexEvent, lockVars>>
    /\ UNCHANGED <<now, up, timers, nextThreadId, openLog, closeLog, recovery, attempts>>

\* messageDelete (part_007:2723-2753) for the Event's message deleted by
\* hand.  The row and the cache entry are deleted; eventData is looked up in
\* the cache after the entry was removed, so the thread is left alone.
messageDelete ==
    /\ up
    /\ db # NoRow
    /\ db' = NoRow
    /\ events' = NoRow
    /\ deletion' = Deleted
    /\ UNCHANGED <<discordVars, rsvpVars, indexEvent, lockVars>>
    /\ UNCHANGED <<now, up, timers, nextThreadId, openLog, closeLog, recovery, attempts>>

\* A moderator deletes the thread in Discord.  The bot has no handler for it.
threadDelete(thread) ==
    /\ thread \in guildThreads
    /\ guildThreads' = guildThreads \ {thread}
    /\ threadMembers' = {m \in threadMembers : m[1] # thread}
    /\ UNCHANGED <<storeVars, rsvpVars, indexEvent, schedVars, lockVars>>

\* The timers ready sets for a loaded row (part_007:2928-2962), the guild
\* being in the client's cache.  now is the minute the clock is in and the
\* clock ready reads is past the first instant of that minute: a moment of
\* this minute is before it.
readyTimers(event) ==
    (IF /\ event.threadOpenHoursBefore > 0
        /\ \/ openTimeOf(event) > now
           \/ event.threadId = NoThread /\ openTimeOf(event) <= now
     THEN {scheduleThreadOpening(event)} ELSE {})
    \cup
    (IF /\ event.threadId # NoThread /\ event.threadOpenedAt # NoTime
        /\ deleteTimeOf(event) > now
     THEN {scheduleThreadDeletion(event, event.threadId)} ELSE {})

\* What a restart finds: whether the stored Event has an open thread, and the
\* close time of the stored Event.
Recovered(row) ==
    [ran |-> TRUE, at |-> now,
     loaded |-> row # NoRow,
     venueOpen |-> /\ row # NoRow
                   /\ row.threadId # NoThread /\ row.threadOpenedAt # NoTime
                   /\ row.threadId \in guildThreads,
     closeDue |-> IF row = NoRow THEN NoTime ELSE deleteTimeOf(row),
     closes |-> Len(closeLog)]

\* client.once('ready') (part_007:2836-2976) of a process that starts again.
ready ==
    /\ ~up
    /\ up' = TRUE
    /\ events' = IF db = NoRow THEN NoRow ELSE MapRow(db)
    /\ timers' = IF db = NoRow THEN {} ELSE readyTimers(MapRow(db))
    /\ recovery' = Recovered(db)
    /\ UNCHANGED <<db, discordVars, rsvpVars, indexEvent, lockVars>>
    /\ UNCHANGED <<now, nextThreadId, openLog, closeLog, attempts, deletion>>

\* The process ends (and the container is started again, docker-compose.yml
\* "restart: always"): the cache, the timers and the handlers in progress
\* are gone.
processExit ==
    /\ up
    /\ up' = FALSE
    /\ events' = NoRow
    /\ timers' = {}
    /\ inflight' = [u \in Users |-> Idle]
    /\ UNCHANGED <<db, discordVars, memberRoles, roleMenu, classMenu, interactions, acked>>
    /\ UNCHANGED selection
    /\ UNCHANGED <<indexEvent, lockVars, now, nextThreadId, openLog, closeLog, recovery>>
    /\ UNCHANGED <<attempts, deletion>>

\* A minute passes.  A running process runs a callback when its delay is over.
Tick ==
    /\ now < MaxTime
    /\ up => \A t \in timers : t.at > now
    /\ now' = now + 1
    /\ UNCHANGED <<storeVars, discordVars, rsvpVars, indexEvent, lockVars>>
    /\ UNCHANGED <<up, timers, nextThreadId, openLog, closeLog, recovery>>
    /\ UNCHANGED <<attempts, deletion>>

-----------------------------------------------------------------------------
(* The edit lock.  The dashboard page (src/bot/web/static/main-v2.js) calls *)
(* POST /api/events/{id}/lock, POST .../unlock and GET .../lock-status.    *)
(* The manager that answers them (spec section 4.3) keeps, per Event, lock  *)
(* records [holder, acquiredAt, expiry] and handles one call at a time.     *)

Operators == {"A", "B"}

\* The manager's TTL and the page's heartbeat period (setInterval 60000) are
\* both 60 s; the lock clock counts half minutes.
TTL == 2
LockHeartbeat == 2
MaxClock == 5      \* the lock clock stops here

LiveLocks_inclusive(table, t) == {l \in table : t <= l.expiry}

\* A lock is live while now < expiry.
LiveLocks(table, t) == {l \in table : t < l.expiry}

acquire_untested(table, holderId, t) ==
    [locks |-> table \cup {[holder |-> holderId, acquiredAt |-> t, expiry |-> t + TTL]},
     status |-> 200, holder |-> holderId, expiry |-> t + TTL]

acquire_misreported(table, holderId, t) ==
    LET live == LiveLocks(table, t)
    IN IF \A l \in live : l.holder = holderId
       THEN [locks |-> {l \in table : l \in live /\ l.holder # holderId}
                       \cup {[holder |-> holderId, acquiredAt |-> t, expiry |-> t + TTL]},
             status |-> 200, holder |-> holderId, expiry |-> t + TTL]
       ELSE [locks |-> table, status |-> 423, holder |-> holderId, expiry |-> t + TTL]

\* acquire(eventId, holderId) at time t: the lock table and the answer.
acquire(table, holderId, t) ==
    LET live == LiveLocks(table, t)
    IN IF \A l \in live : l.holder = holderId
       THEN [locks |-> {l \in table : l \in live /\ l.holder # holderId}
                       \cup {[holder |-> holderId, acquiredAt |-> t, expiry |-> t + TTL]},
             status |-> 200, holder |-> holderId, expiry |-> t + TTL]
       ELSE LET current == CHOOSE l \in live : l.holder # holderId
            IN [locks |-> table, status |-> 423,
                holder |-> current.holder, expiry |-> current.expiry]

\* A release that clears the lock whoever holds it.
release_any(table, holderId) == [locks |-> {}, status |-> 200]

\* release(eventId, holderId): only the holder's own lock is cleared, and the
\* call succeeds whether or not there was one.
release(table, holderId) ==
    [locks |-> {l \in table : l.holder # holderId}, status |-> 200]

\* status(eventId) at time t.
status(table, t) ==
    LET live == LiveLocks(table, t)
    IN IF live = {} THEN [is_locked |-> FALSE, locked_by_user_id |-> Null]
       ELSE [is_locked |-> TRUE, locked_by_user_id |-> (CHOOSE l \in live : TRUE).holder]

NoAnswer == [status |-> 0, holder |-> Null, expiry |-> NoTime, at |-> NoTime,
             before |-> {}, after |-> {}]

\* The answer to a POST .../lock, with the lock table before and after it.
Answer(r, table, t) ==
    [status |-> r.status, holder |-> r.holder, expiry |-> r.expiry, at |-> t,
     before |-> table, after |-> r.locks]

NoCall == [call |-> "none"]

\* The answer to POST .../unlock and what the call met and left: the
\* caller's own lock (none, live or expired), a live lock of another
\* operator, whether every lock of another operator is still there, and
\* whether the table now holds no lock of the caller and nothing new.
Unlocked(r, table, holderId, t) ==
    [call |-> "release", status |-> r.status,
     own |-> IF \A l \in table : l.holder # holderId THEN "none"
             ELSE IF \E l \in table : l.holder = holderId /\ t < l.expiry
             THEN "live" ELSE "expired",
     other |-> \E l \in table : l.holder # holderId /\ t < l.expiry,
     kept |-> \A l \in table : l.holder # holderId => l \in r.locks,
     cleared |-> \A l \in r.locks : l.holder # holderId /\ l \in table]

ClientIdle ==
    [pc |-> "idle", selected |-> FALSE, lockInterval |-> FALSE,
     nextBeat |-> NoTime, locked |-> FALSE]

\* handleEventSelection (main-v2.js:393-402) after acquireLock: the page
\* fetches the Event's squads and renders them if there are any;
\* renderWorkshop stores them in currentSquads (main-v2.js:486).
loadSquads(op) ==
    IF squads # <<>> THEN [currentSquads EXCEPT ![op] = squads] ELSE currentSquads

\* acquireLock (main-v2.js:118-141) up to the answer to its POST: on 423 the
\* page goes on to ask for the lock status, otherwise it starts the heartbeat.
acquireLock(op) ==
    /\ client[op].pc = "idle"
    /\ LET r == acquire(locks, op, lockClock)
       IN /\ locks' = r.locks
          /\ lastAcq' = [lastAcq EXCEPT ![op] = Answer(r, locks, lockClock)]
          /\ client' = [client EXCEPT ![op] =
                IF r.status = 423
                THEN [@ EXCEPT !.pc = "status", !.selected = TRUE]
                ELSE [@ EXCEPT !.locked = FALSE, !.lockInterval = TRUE,
                               !.selected = TRUE,
                               !.nextBeat = lockClock + LockHeartbeat]]
          /\ currentSquads' = IF r.status = 423 THEN currentSquads
                              ELSE loadSquads(op)
    /\ UNCHANGED <<storeVars, discordVars, rsvpVars, indexEvent, schedVars>>
    /\ UNCHANGED <<lockClock, page, eventLocks, lastCall>>
    /\ UNCHANGED <<attending, squads, builds, moved, edits>>

\* acquireLock after a 423 (main-v2.js:122-130): the page is read-only when
\* the status names another operator.
acquireLock_status(op) ==
    /\ client[op].pc = "status"
    /\ LET lockStatus == status(locks, lockClock)
       IN client' = [client EXCEPT ![op] =
                [@ EXCEPT !.pc = "idle",
                          !.locked = lockStatus.is_locked
                                     /\ lockStatus.locked_by_user_id # op]]
    /\ UNCHANGED <<storeVars, discordVars, rsvpVars, indexEvent, schedVars>>
    /\ currentSquads' = loadSquads(op)
    /\ UNCHANGED <<locks, lockClock, page, eventLocks, lastAcq, lastCall>>
    /\ UNCHANGED <<attending, squads, builds, moved, edits>>

\* The heartbeat (main-v2.js:136): every 60 s the page posts again and does
\* not read the answer.
heartbeat(op) ==
    /\ client[op].lockInterval
    /\ lockClock >= client[op].nextBeat
    /\ LET r == acquire(locks, op, lockClock)
       IN /\ locks' = r.locks
          /\ lastAcq' = [lastAcq EXCEPT ![op] = Answer(r, locks, lockClock)]
    /\ client' = [client EXCEPT ![op].nextBeat = @ + LockHeartbeat]
    /\ UNCHANGED <<storeVars, discordVars, rsvpVars, indexEvent, schedVars>>
    /\ UNCHANGED <<lockClock, page, eventLocks, lastCall, squadVars>>

\* releaseLock (main-v2.js:143-150) as the clear-lock button and the change
\* of the dropdown to no Event call it (main-v2.js:205-211, 375-385): the
\* page leaves the Event and is no longer read-only.
releaseLock(op) ==
    /\ client[op].pc = "idle"
    /\ client[op].selected
    /\ client' = [client EXCEPT ![op].lockInterval = FALSE, ![op].nextBeat = NoTime,
                                ![op].selected = FALSE, ![op].locked = FALSE]
    /\ LET r == release(locks, op)
       IN /\ locks' = r.locks
          /\ lastCall' = [lastCall EXCEPT ![op] = Unlocked(r, locks, op, lockClock)]
    /\ UNCHANGED <<storeVars, discordVars, rsvpVars, indexEvent, schedVars>>
    /\ UNCHANGED <<lockClock, page, eventLocks, lastAcq, squadVars>>

\* Half a minute passes.
LockTick ==
    /\ lockClock < MaxClock
    /\ lockClock' = lockClock + 1
    /\ UNCHANGED <<storeVars, discordVars, rsvpVars, indexEvent, schedVars>>
    /\ UNCHANGED <<locks, client, lastAcq, lastCall, squadVars>>
    /\ UNCHANGED <<page, eventLocks>>

-----------------------------------------------------------------------------
(* One page whose operator changes the Event dropdown while earlier         *)
(* selections are still being handled.  handleEventSelection (main-v2.js:   *)
(* 371-406) is an async function: it runs up to an await, and another run   *)
(* can start before it resumes.  A POST is handled by the manager when it   *)
(* is sent; its answer reaches the page later.                              *)

EventIds == {"X", "Y"}
NoEvent == ""          \* the empty option of the dropdown; no interval
MaxRuns == 3           \* changes of the dropdown in a behaviour

\* The page after load: nothing selected, lockInterval null (main-v2.js:12).
PageIdle ==
    [value |-> NoEvent, previous |-> NoEvent, lockInterval |-> NoEvent,
     runs |-> <<>>]

\* handleEventSelection from the read of the dropdown to the POST of
\* acquireLock (main-v2.js:383-387, 118-121), for run i: the Event read is
\* the one the dropdown shows now.
selectEvent(pg, i) ==
    [pg EXCEPT !.previous = pg.value,
               !.runs[i] = [pc |-> IF pg.value = NoEvent THEN "done" ELSE "lock",
                            eventId |-> pg.value]]

\* The manager's tables after POST .../lock for the Event the page shows;
\* the page is operator A's.
lockPosted(pg) ==
    IF pg.value = NoEvent THEN eventLocks
    ELSE [eventLocks EXCEPT
            ![pg.value] = acquire(@, "A", lockClock).locks]

\* The operator picks v in the dropdown: a run of handleEventSelection
\* starts (main-v2.js:371-378).  With a previous Event it clears the
\* interval and posts the unlock (releaseLock, main-v2.js:143-150), and
\* waits for the answer; without one it goes on to acquireLock.
handleEventSelection(v) ==
    /\ Len(page.runs) < MaxRuns
    /\ v # page.value
    /\ LET i == Len(page.runs) + 1
           picked == [page EXCEPT !.value = v,
                                  !.runs = Append(@, [pc |-> "start",
                                                      eventId |-> NoEvent])]
       IN IF page.previous # NoEvent
          THEN /\ page' = [picked EXCEPT
                              !.lockInterval = NoEvent,
                              !.runs[i] = [pc |-> "unlock",
                                           eventId |-> page.previous]]
               /\ eventLocks' = [eventLocks EXCEPT
                      ![page.previous] = release(@, "A").locks]
          ELSE /\ page' = selectEvent(picked, i)
               /\ eventLocks' = lockPosted(picked)
    /\ UNCHANGED <<storeVars, discordVars, rsvpVars, indexEvent, schedVars>>
    /\ UNCHANGED <<locks, lockClock, client, lastAcq, lastCall, squadVars>>

\* The unlock of run i is answered: the run goes on (main-v2.js:379-387).
handleEventSelection_released(i) ==
    /\ i \in 1..Len(page.runs)
    /\ page.runs[i].pc = "unlock"
    /\ page' = selectEvent(page, i)
    /\ eventLocks' = lockPosted(page)
    /\ UNCHANGED <<storeVars, discordVars, rsvpVars, indexEvent, schedVars>>
    /\ UNCHANGED <<locks, lockClock, client, lastAcq, lastCall, squadVars>>

\* The POST .../lock of run i is answered 200, the page's operator being
\* the only one: acquireLock clears the interval there is and sets one for
\* its own eventId (main-v2.js:134-137).
acquireLock_answered(i) ==
    /\ i \in 1..Len(page.runs)
    /\ page.runs[i].pc = "lock"
    /\ page' = [page EXCEPT !.lockInterval = page.runs[i].eventId,
                            !.runs[i] = [pc |-> "done", eventId |-> NoEvent]]
    /\ UNCHANGED eventLocks
    /\ UNCHANGED <<storeVars, discordVars, rsvpVars, indexEvent, schedVars>>
    /\ UNCHANGED <<locks, lockClock, client, lastAcq, lastCall, squadVars>>

\* The callback of the interval (main-v2.js:136) posts the lock of the
\* eventId it was set for.  A renewal of a lock that is there leaves the
\* table as it is; the step that shows is the one that locks the Event anew.
lockIntervalCallback ==
    /\ page.lockInterval # NoEvent
    /\ eventLocks' = [eventLocks EXCEPT
            ![page.lockInterval] = acquire(@, "A", lockClock).locks]
    /\ eventLocks' # eventLocks
    /\ UNCHANGED page
    /\ UNCHANGED <<storeVars, discordVars, rsvpVars, indexEvent, schedVars>>
    /\ UNCHANGED <<locks, lockClock, client, lastAcq, lastCall, squadVars>>

-----------------------------------------------------------------------------
(* The squads.  The page posts build-squads, refresh-roster and the member  *)
(* edits (main-v2.js:157-203, 319-340, 528-540); the server that allocates  *)
(* (spec section 4.4) and guards the calls by the lock (spec sections 4.3,  *)
(* 6) answers them.                                                        *)

Members == {"m1", "m2", "m3"}

\* The members' responses in the order they were given, with primary role.
Signups ==
    << [id |-> "m1", role |-> "Infantry"],
       [id |-> "m2", role |-> "Armour"],
       [id |-> "m3", role |-> "Infantry"] >>

\* The Attending roster: the attendees in roster order.
rosterOf(present) == SelectSeq(Signups, LAMBDA a : a.id \in present)

SquadKinds == <<"Infantry", "Armour">>

MaxSquads == 2      \* squads of one kind a build asks for
MaxSquadSize == 2   \* target size of a squad
MaxEdits == 4       \* roster edits and roster changes in a behaviour
MaxGuardEdits == 3  \* roster edits when two operators contend

\* The quotas a build request carries: per squad kind a count and a size.
QuotaChoices ==
    { << [kind |-> "Infantry", count |-> c, size |-> z],
         [kind |-> "Armour", count |-> 1, size |-> 1] >> :
      c \in 1..MaxSquads, z \in 1..MaxSquadSize }

Min(a, b) == IF a <= b THEN a ELSE b

Reserves == <<"Reserves", 0>>

MemberIds(squad) == {squad.members[i].id : i \in 1..Len(squad.members)}

Placed(list) == UNION {MemberIds(list[i]) : i \in 1..Len(list)}

\* Attendees grouped by primary role, roster order kept within a group.
RECURSIVE Grouped(_, _)
Grouped(attendees, kinds) ==
    IF kinds = <<>> THEN <<>>
    ELSE SelectSeq(attendees, LAMBDA a : a.role = Head(kinds))
         \o Grouped(attendees, Tail(kinds))

\* The squads of one kind: count squads, each filled up to size from the
\* kind's group in order.
SquadsOf(q, attendees) ==
    LET group == SelectSeq(attendees, LAMBDA a : a.role = q.kind)
    IN [i \in 1..q.count |->
          [name |-> <<q.kind, i>>,
           members |-> SubSeq(group, (i - 1) * q.size + 1,
                              Min(i * q.size, Len(group)))]]

RECURSIVE SquadsOfKinds(_, _)
SquadsOfKinds(attendees, quotas) ==
    IF quotas = <<>> THEN <<>>
    ELSE SquadsOf(Head(quotas), attendees)
         \o SquadsOfKinds(attendees, Tail(quotas))

\* allocate(attendees, quotas): the squads in quota order, then the
\* reserve pool with everybody left unplaced.
allocate(attendees, quotas) ==
    LET filled == SquadsOfKinds(attendees, quotas)
    IN Append(filled,
              [name |-> Reserves,
               members |-> SelectSeq(Grouped(attendees, SquadKinds),
                                     LAMBDA a : a.id \notin Placed(filled))])

\* The re-run against a prior allocation: every squad keeps its identity and
\* its members who are still Attending; new attendees join the reserves.
refreshSquads(prior, attendees) ==
    LET ids == {attendees[i].id : i \in 1..Len(attendees)}
        kept == [i \in 1..Len(prior) |->
                   [prior[i] EXCEPT
                       !.members = SelectSeq(@, LAMBDA m : m.id \in ids)]]
        new == SelectSeq(attendees, LAMBDA a : a.id \notin Placed(prior))
    IN IF prior = <<>> THEN <<>>
       ELSE [kept EXCEPT ![Len(kept)].members = @ \o new]

\* A build that fills the stored squads in place.
buildSquads_inPlace(stored, attendees, quotas) ==
    IF stored = <<>> THEN allocate(attendees, quotas)
    ELSE refreshSquads(stored, attendees)

\* POST build-squads: the allocator run on the roster and the quotas.
buildSquads(stored, attendees, quotas) == allocate(attendees, quotas)

\* A refresh that takes the squads of the request body as prior allocation.
refreshRoster_fromBody(stored, body, attendees) == refreshSquads(body, attendees)

\* POST refresh-roster: the re-run against the stored squads.
refreshRoster(stored, body, attendees) == refreshSquads(stored, attendees)

SquadOf(list, memberId) ==
    IF \E i \in 1..Len(list) : memberId \in MemberIds(list[i])
    THEN CHOOSE i \in 1..Len(list) : memberId \in MemberIds(list[i])
    ELSE 0

SquadNamed(list, name) ==
    IF \E i \in 1..Len(list) : list[i].name = name
    THEN CHOOSE i \in 1..Len(list) : list[i].name = name
    ELSE 0

\* PUT members/<id>/move: the member leaves its squad and joins the squad
\* asked for; unknown member or squad changes nothing.
moveMember(stored, memberId, name) ==
    LET from == SquadOf(stored, memberId)
        to == SquadNamed(stored, name)
    IN IF from = 0 \/ to = 0 \/ from = to THEN stored
       ELSE LET i == CHOOSE i \in 1..Len(stored[from].members) :
                        stored[from].members[i].id = memberId
                m == stored[from].members[i]
            IN [stored EXCEPT
                   ![from].members = SelectSeq(@, LAMBDA x : x.id # memberId),
                   ![to].members = Append(@, m)]

\* PUT members/<id>/role: the member's assigned role is replaced.
setRole(stored, memberId, role) ==
    [i \in 1..Len(stored) |->
        [stored[i] EXCEPT !.members =
            [j \in 1..Len(@) |->
                IF @[j].id = memberId THEN [@[j] EXCEPT !.role = role] ELSE @[j]]]]

\* A guard every caller passes.
HoldsLock_anyone(table, holderId, t) == TRUE

\* The guard of the roster-editing calls: the caller holds the live lock.
HoldsLock(table, holderId, t) ==
    \E l \in LiveLocks(table, t) : l.holder = holderId

EditCalls == {"build", "refresh", "move", "role"}

\* The answer to a roster-editing call, whether the caller had a live lock
\* in the table at that moment, and whether the stored squads changed.
Edited(call, op, ok, result) ==
    [call |-> call, status |-> IF ok THEN 200 ELSE 423,
     held |-> \E l \in locks : l.holder = op /\ lockClock < l.expiry,
     applied |-> result # squads]

NoMove == [member |-> "none"]

LastTwo(s) == IF Len(s) > 2 THEN Tail(s) ELSE s

\* The page lets the operator edit: an Event is selected and the read-only
\* overlay (setLockedState, main-v2.js:107-116) is not shown.
pageEditable(op) ==
    /\ client[op].pc = "idle"
    /\ client[op].selected
    /\ ~client[op].locked
    /\ edits < MaxEdits

\* buildBtn (main-v2.js:157-181).
buildBtn(op, quotas) ==
    /\ pageEditable(op)
    /\ LET ok == HoldsLock(locks, op, lockClock)
           result == IF ok THEN buildSquads(squads, rosterOf(attending), quotas)
                     ELSE squads
       IN /\ squads' = result
          /\ currentSquads' = IF ok THEN [currentSquads EXCEPT ![op] = result]
                              ELSE currentSquads
          /\ builds' = IF ok
                       THEN LastTwo(Append(builds,
                                [attendees |-> rosterOf(attending),
                                 quotas |-> quotas, squads |-> result]))
                       ELSE builds
          /\ moved' = IF ok THEN NoMove ELSE moved
          /\ lastCall' = [lastCall EXCEPT ![op] = Edited("build", op, ok, result)]
    /\ edits' = edits + 1
    /\ UNCHANGED <<storeVars, discordVars, rsvpVars, indexEvent, schedVars>>
    /\ UNCHANGED <<locks, lockClock, page, eventLocks, client, lastAcq, attending>>

\* refreshRosterBtn (main-v2.js:183-203); the body carries currentSquads.
refreshRosterBtn(op) ==
    /\ pageEditable(op)
    /\ currentSquads[op] # <<>>
    /\ LET ok == HoldsLock(locks, op, lockClock)
           result == IF ok
                     THEN refreshRoster(squads, currentSquads[op], rosterOf(attending))
                     ELSE squads
       IN /\ squads' = result
          /\ currentSquads' = IF ok THEN [currentSquads EXCEPT ![op] = result]
                              ELSE currentSquads
          /\ moved' = IF ~ok \/ moved = NoMove THEN moved
                      ELSE IF attending = moved.attending
                      THEN [moved EXCEPT !.refreshed = TRUE, !.page = op]
                      ELSE NoMove
          /\ lastCall' = [lastCall EXCEPT ![op] = Edited("refresh", op, ok, result)]
    /\ edits' = edits + 1
    /\ UNCHANGED <<storeVars, discordVars, rsvpVars, indexEvent, schedVars>>
    /\ UNCHANGED <<locks, lockClock, page, eventLocks, client, lastAcq, attending, builds>>

\* The drag of a member to another squad (Sortable onEnd, main-v2.js:528-540):
\* the page puts the move and leaves currentSquads as it was.
sortableOnEnd(op, memberId, target) ==
    /\ pageEditable(op)
    /\ target \in 1..Len(currentSquads[op])
    /\ SquadOf(currentSquads[op], memberId) \notin {0, target}
    /\ LET ok == HoldsLock(locks, op, lockClock)
           name == currentSquads[op][target].name
           result == IF ok THEN moveMember(squads, memberId, name) ELSE squads
       IN /\ squads' = result
          /\ moved' = IF result # squads
                      THEN [member |-> memberId, squad |-> name,
                            attending |-> attending,
                            refreshed |-> FALSE, page |-> op]
                      ELSE moved
          /\ lastCall' = [lastCall EXCEPT ![op] = Edited("move", op, ok, result)]
    /\ edits' = edits + 1
    /\ UNCHANGED <<storeVars, discordVars, rsvpVars, indexEvent, schedVars>>
    /\ UNCHANGED <<locks, lockClock, page, eventLocks, client, lastAcq, attending, currentSquads, builds>>

\* editMemberForm (main-v2.js:319-340): the role of a member shown in the
\* workshop is changed.
editMemberForm(op, memberId, newRole) ==
    /\ pageEditable(op)
    /\ SquadOf(currentSquads[op], memberId) # 0
    /\ LET ok == HoldsLock(locks, op, lockClock)
           result == IF ok THEN setRole(squads, memberId, newRole) ELSE squads
       IN /\ squads' = result
          /\ lastCall' = [lastCall EXCEPT ![op] = Edited("role", op, ok, result)]
    /\ edits' = edits + 1
    /\ UNCHANGED <<storeVars, discordVars, rsvpVars, indexEvent, schedVars>>
    /\ UNCHANGED <<locks, lockClock, page, eventLocks, client, lastAcq>>
    /\ UNCHANGED <<attending, currentSquads, builds, moved>>

\* A member's response changes the Attending roster.
rosterChange(memberId) ==
    /\ edits < MaxEdits
    /\ attending' = IF memberId \in attending THEN attending \ {memberId}
                    ELSE attending \cup {memberId}
    /\ edits' = edits + 1
    /\ UNCHANGED <<storeVars, discordVars, rsvpVars, indexEvent, schedVars>>
    /\ UNCHANGED <<locks, lockClock, page, eventLocks, client, lastAcq, lastCall>>
    /\ UNCHANGED <<squads, currentSquads, builds, moved>>

\* The lock manager at rest: no lock, no page open, no squads built.
LockQuiet ==
    /\ locks = {} /\ lockClock = 0
    /\ client = [op \in Operators |-> ClientIdle]
    /\ lastAcq = [op \in Operators |-> NoAnswer]
    /\ lastCall = [op \in Operators |-> NoCall]
    /\ attending = Members
    /\ squads = <<>>
    /\ currentSquads = [op \in Operators |-> <<>>]
    /\ builds = <<>>
    /\ moved = NoMove
    /\ edits = 0
    /\ page = PageIdle
    /\ eventLocks = [e \in EventIds |-> {}]

-----------------------------------------------------------------------------
(* The attendance specification: one Event that handleCreateEvent has      *)
(* stored, its thread open or not, and the members' interactions.          *)

\* P holds the Event's role and every certification, Q holds no role: on a
\* restricted Event Q is refused, on an unrestricted one Q is uncertified.
MemberProfile(u) ==
    IF u = "P"
    THEN {EventRoleId, CMDR_CERTIFIED_ROLE_ID, RECON_CERTIFIED_ROLE_ID,
          SL_CERTIFIED_ROLE_ID, TC_CERTIFIED_ROLE_ID}
    ELSE {}

StoredEvent(restricted, open) ==
    [newEventData(1, 1, 1, restricted, 1) EXCEPT
        !.messageId = 1,
        !.threadId = IF open THEN 1 ELSE NoThread,
        !.threadOpenedAt = IF open THEN 0 ELSE NoTime,
        !.threadRosterMessageId = IF open THEN 1 ELSE 0]

\* The in-memory bot's Event right after createEvent (index.js:23-32).
IndexCreated == [attendees |-> <<>>, roles |-> <<>>]

\* The scheduler at rest: the process runs, no timer is pending.
SchedQuiet ==
    /\ now = 0 /\ up = TRUE /\ timers = {}
    /\ openLog = <<>> /\ closeLog = <<>> /\ recovery = NoRecovery
    /\ attempts = <<>> /\ deletion = NoDeletion

RsvpInit ==
    /\ \E restricted \in {{}, {EventRoleId}}, open \in BOOLEAN :
          /\ db = StoredEvent(restricted, open)
          /\ events = db
          /\ guildThreads = IF open THEN {1} ELSE {}
    /\ threadMembers = {}
    /\ memberRoles = [u \in Users |-> MemberProfile(u)]
    /\ inflight = [u \in Users |-> Idle]
    /\ roleMenu = [u \in Users |-> {}]
    /\ classMenu = [u \in Users |-> {}]
    /\ interactions = 0
    /\ acked = [u \in Users |-> NoObj]
    /\ selection = [u \in Users |-> NoSelection]

Init ==
    /\ RsvpInit
    /\ indexEvent = IndexCreated
    /\ SchedQuiet /\ nextThreadId = 2
    /\ LockQuiet

AllRoleNames == RoleNames(defaultPrimaryRoles)
AllClassNames == UNION {ClassNames(defaultPrimaryRoles[i].classes) :
                            i \in 1..Len(defaultPrimaryRoles)}

Next ==
    \/ \E u \in Users, raw \in RawStatuses : handleRSVP(u, raw)
    \/ \E u \in Users, v \in AllRoleNames : selectMenu(u, "select_role", v)
    \/ \E u \in Users, v \in AllClassNames : selectMenu(u, "select_class", v)
    \/ \E u \in Users, ok \in BOOLEAN : finishInteraction(u, ok, "none")

Spec == Init /\ [][Next]_vars

CertNext ==
    \/ \E raw \in RawStatuses : handleRSVP("P", raw)
    \/ \E v \in AllRoleNames : selectMenu("P", "select_role", v)
    \/ \E v \in AllClassNames : selectMenu("P", "select_class", v)
    \/ \E ok \in BOOLEAN : finishInteraction("P", ok, "none")
    \/ \E r \in {CMDR_CERTIFIED_ROLE_ID, SL_CERTIFIED_ROLE_ID} :
          guildMemberUpdate("P", r)

\* The interactions of P, who loses a certification on the way.
SpecCert == Init /\ [][CertNext]_vars

\* P's interactions when the calls made after the UPDATE can fail.
SideNext ==
    \/ \E raw \in RawStatuses : handleRSVP("P", raw)
    \/ \E v \in AllRoleNames : selectMenu("P", "select_role", v)
    \/ \E v \in AllClassNames : selectMenu("P", "select_class", v)
    \/ \E ok \in BOOLEAN, side \in SideFailures : finishInteraction("P", ok, side)

SpecSide == Init /\ [][SideNext]_vars

-----------------------------------------------------------------------------
(* The in-memory bot (src/index.js): roles are created by command, an      *)
(* administrator assigns classes, members change their RSVP status.        *)

\* createPrimaryRole (index.js:46-67); a role that exists is refused.
createPrimaryRole(roleDef) ==
    /\ roleDef.primaryRole \notin RoleNames(indexEvent.roles)
    /\ indexEvent' = [indexEvent EXCEPT !.roles = Append(@, roleDef)]
    /\ UNCHANGED <<storeVars, discordVars, rsvpVars, schedVars, lockVars>>

\* assignClassToUser (index.js:70-98).
assignClassToUser_Result(event, userId, primaryRole, className) ==
    LET role == FindRole(event.roles, primaryRole)
        classObj == IF role = NoObj THEN NoObj ELSE FindClass(role.classes, className)
        i == FindIndex(event.attendees, userId)
    IN IF role = NoObj \/ classObj = NoObj
       THEN event
       ELSE IF i = 0
       THEN [event EXCEPT !.attendees =
                Append(@, [userId |-> userId, primaryRole |-> primaryRole,
                           className |-> className, emoji |-> classObj.emoji,
                           rsvpStatus |-> "Tentative"])]
       ELSE [event EXCEPT !.attendees[i].primaryRole = primaryRole,
                          !.attendees[i].className = className,
                          !.attendees[i].emoji = classObj.emoji]

assignClassToUser(userId, primaryRole, className) ==
    /\ indexEvent' = assignClassToUser_Result(indexEvent, userId, primaryRole, className)
    /\ UNCHANGED <<storeVars, discordVars, rsvpVars, schedVars, lockVars>>

\* handleRSVP of index.js (index.js:119-133): only the status is stored.
indexHandleRSVP(userId, rsvpStatus) ==
    /\ LET i == FindIndex(indexEvent.attendees, userId)
       IN indexEvent' = IF i = 0 THEN indexEvent
                        ELSE [indexEvent EXCEPT !.attendees[i].rsvpStatus = rsvpStatus]
    /\ UNCHANGED <<storeVars, discordVars, rsvpVars, schedVars, lockVars>>

IndexInit ==
    /\ indexEvent = IndexCreated
    /\ db = NoRow /\ events = NoRow
    /\ guildThreads = {} /\ threadMembers = {}
    /\ memberRoles = [u \in Users |-> {}]
    /\ inflight = [u \in Users |-> Idle]
    /\ roleMenu = [u \in Users |-> {}]
    /\ classMenu = [u \in Users |-> {}]
    /\ interactions = 0
    /\ acked = [u \in Users |-> NoObj]
    /\ selection = [u \in Users |-> NoSelection]
    /\ SchedQuiet /\ nextThreadId = 1
    /\ LockQuiet

IndexNext ==
    \/ \E i \in 1..Len(defaultPrimaryRoles) : createPrimaryRole(defaultPrimaryRoles[i])
    \/ \E u \in Users, r \in AllRoleNames, c \in AllClassNames : assignClassToUser(u, r, c)
    \/ \E u \in Users, st \in {"Attending", "Tentative", "Declined"} : indexHandleRSVP(u, st)

SpecIndex == IndexInit /\ [][IndexNext]_vars

-----------------------------------------------------------------------------
(* The scheduler specifications: no Event yet, the process running.        *)

SchedInit ==
    /\ db = NoRow /\ events = NoRow
    /\ guildThreads = {} /\ threadMembers = {}
    /\ memberRoles = [u \in Users |-> MemberProfile(u)]
    /\ inflight = [u \in Users |-> Idle]
    /\ roleMenu = [u \in Users |-> {}]
    /\ classMenu = [u \in Users |-> {}]
    /\ interactions = 0
    /\ acked = [u \in Users |-> NoObj]
    /\ selection = [u \in Users |-> NoSelection]
    /\ indexEvent = IndexCreated
    /\ SchedQuiet /\ nextThreadId = 1
    /\ LockQuiet

SchedNext ==
    \/ \E d \in Dates, st \in StartTimes, en \in EndTimes, h \in LeadHours :
          handleCreateEvent(d, st, en, h)
    \/ \E t \in timers, fail \in {"none", "update"} : threadOpeningCallback(t, fail)
    \/ \E t \in timers, ok \in BOOLEAN : threadDeletionCallback(t, ok)
    \/ processExit
    \/ ready
    \/ Tick

\* Creation, the timers and restarts; of the failures of the open callback,
\* the UPDATE that throws.
SpecSched == SchedInit /\ [][SchedNext]_vars

EditNext ==
    \/ SchedNext
    \/ \E d \in Dates, st \in StartTimes, en \in EndTimes, ok \in BOOLEAN :
          editEventModal(d, st, en, ok)

\* The same with the Event edited.
SpecEdit == SchedInit /\ [][EditNext]_vars

\* The two modals with any times typed in, and the clock.
TimesNext ==
    \/ \E d \in Dates, st \in TimesOfDay, en \in TimesOfDay :
          handleCreateEvent(d, st, en, 0)
    \/ \E d \in Dates, st \in TimesOfDay, en \in TimesOfDay, ok \in BOOLEAN :
          editEventModal(d, st, en, ok)
    \/ Tick

SpecTimes == SchedInit /\ [][TimesNext]_vars

VenueNext ==
    \/ deletion = NoDeletion /\
          \E en \in EndTimes, h \in LeadHours : handleCreateEvent(1, 0, en, h)
    \/ \E t \in timers : threadOpeningCallback(t, "none")
    \/ \E t \in timers, ok \in BOOLEAN : threadDeletionCallback(t, ok)
    \/ \E ok \in BOOLEAN : delete_event(ok)
    \/ messageDelete
    \/ \E thread \in guildThreads : threadDelete(thread)
    \/ processExit
    \/ ready
    \/ Tick

\* One Event, of day 1 at 00:00, from its creation to its deletion, its
\* thread deleted by the timer or by hand.
SpecVenue == SchedInit /\ [][VenueNext]_vars

\* One Event whose message is deleted by hand, before its thread is opened,
\* while it is open or after it was closed.
MessageNext ==
    \/ deletion = NoDeletion /\
          \E en \in EndTimes, h \in LeadHours : handleCreateEvent(1, 0, en, h)
    \/ \E t \in timers : threadOpeningCallback(t, "none")
    \/ \E t \in timers, ok \in BOOLEAN : threadDeletionCallback(t, ok)
    \/ messageDelete
    \/ Tick

SpecMessage == SchedInit /\ [][MessageNext]_vars

\* Creations of the Event, of day 1 at 00:00, that succeed or fail after
\* the INSERT, and the timers.
CreateNext ==
    \/ \E en \in EndTimes, h \in LeadHours : handleCreateEvent(1, 0, en, h)
    \/ \E en \in EndTimes, h \in LeadHours,
          fail \in CreateFailures, cleanup \in CleanupOutcomes :
          handleCreateEvent_sendError(1, 0, en, h, fail, cleanup)
    \/ \E t \in timers : threadOpeningCallback(t, "none")
    \/ \E t \in timers, ok \in BOOLEAN : threadDeletionCallback(t, ok)
    \/ Tick

SpecCreate == SchedInit /\ [][CreateNext]_vars

FailNext ==
    \/ \E en \in EndTimes, h \in LeadHours : handleCreateEvent(1, 0, en, h)
    \/ \E t \in timers, fail \in OpenFailures : threadOpeningCallback(t, fail)
    \/ \E t \in timers, ok \in BOOLEAN : threadDeletionCallback(t, ok)
    \/ processExit
    \/ ready
    \/ Tick

\* One Event, of day 1 at 00:00, the open callback failing at any of its
\* steps.
SpecFail == SchedInit /\ [][FailNext]_vars

OpenNext ==
    \/ \E en \in EndTimes, h \in LeadHours : handleCreateEvent(1, 0, en, h)
    \/ handleRSVP("P", "accept")
    \/ \E ok \in BOOLEAN : finishInteraction("P", ok, "none")
    \/ \E t \in timers, fail \in OpenFailures : threadOpeningCallback(t, fail)
    \/ \E t \in timers, ok \in BOOLEAN : threadDeletionCallback(t, ok)
    \/ Tick

\* One run of the process: an Event, of day 1 at 00:00, which P accepts,
\* the open callback failing at any of its steps.
SpecOpen == SchedInit /\ [][OpenNext]_vars

-----------------------------------------------------------------------------
(* The lock specification: two operators' pages and the lock manager.      *)

LockInit ==
    /\ db = NoRow /\ events = NoRow
    /\ guildThreads = {} /\ threadMembers = {}
    /\ memberRoles = [u \in Users |-> {}]
    /\ inflight = [u \in Users |-> Idle]
    /\ roleMenu = [u \in Users |-> {}]
    /\ classMenu = [u \in Users |-> {}]
    /\ interactions = 0
    /\ acked = [u \in Users |-> NoObj]
    /\ selection = [u \in Users |-> NoSelection]
    /\ indexEvent = IndexCreated
    /\ SchedQuiet /\ nextThreadId = 1
    /\ LockQuiet

LockNext ==
    \/ \E op \in Operators : acquireLock(op)
    \/ \E op \in Operators : acquireLock_status(op)
    \/ \E op \in Operators : heartbeat(op)
    \/ \E op \in Operators : releaseLock(op)
    \/ LockTick

SpecLock == LockInit /\ [][LockNext]_vars

\* The workshop of the operator who holds the lock: builds, moves, role
\* changes and refreshes while the roster changes.
SquadNext ==
    \/ acquireLock("A")
    \/ \E q \in QuotaChoices : buildBtn("A", q)
    \/ refreshRosterBtn("A")
    \/ \E m \in Members, i \in 1..(MaxSquads + 2) : sortableOnEnd("A", m, i)
    \/ \E m \in Members, r \in {"Infantry", "Armour"} : editMemberForm("A", m, r)
    \/ \E m \in Members : rosterChange(m)

SpecSquad == LockInit /\ [][SquadNext]_vars

\* Two operators' pages on the Event: both select it, the lock runs out
\* (no heartbeat arrives), and both try every roster edit on member m1.
GuardNext ==
    \/ \E op \in Operators : acquireLock(op)
    \/ \E op \in Operators : acquireLock_status(op)
    \/ LockTick /\ lockClock <= TTL
    \/ \E op \in Operators :
          edits < MaxGuardEdits /\ buildBtn(op, CHOOSE q \in QuotaChoices : TRUE)
    \/ \E op \in Operators :
          edits < MaxGuardEdits /\ refreshRosterBtn(op)
    \/ \E op \in Operators, i \in 1..(MaxSquads + 2) :
          edits < MaxGuardEdits /\ sortableOnEnd(op, "m1", i)
    \/ \E op \in Operators :
          edits < MaxGuardEdits /\ editMemberForm(op, "m1", "Armour")

SpecGuard == LockInit /\ [][GuardNext]_vars

\* Two operators' pages that select the Event and never leave it: whoever
\* was granted the lock renews it every LockHeartbeat, on time: the clock
\* does not pass the instant at which a started interval is due
\* (main-v2.js:136).
BeatNext ==
    \/ \E op \in Operators : acquireLock(op)
    \/ \E op \in Operators : acquireLock_status(op)
    \/ \E op \in Operators : heartbeat(op)
    \/ /\ \A op \in Operators :
             client[op].lockInterval => lockClock < client[op].nextBeat
       /\ LockTick

SpecBeat == LockInit /\ [][BeatNext]_vars

\* One page, its operator changing the dropdown at any moment.
PageNext ==
    \/ \E v \in EventIds \cup {NoEvent} : handleEventSelection(v)
    \/ \E i \in 1..MaxRuns : handleEventSelection_released(i)
    \/ \E i \in 1..MaxRuns : acquireLock_answered(i)
    \/ lockIntervalCallback

SpecPage == LockInit /\ [][PageNext]_vars

-----------------------------------------------------------------------------
(* Attendance claims *)

\* Every attendee array the program holds: the stored row's, the cache
\* entry's and the in-memory bot's, each with its role catalog.
Rosters ==
    (IF db = NoRow THEN {} ELSE {[attendees |-> db.attendees, roles |-> db.roles]})
    \cup (IF events = NoRow THEN {}
          ELSE {[attendees |-> events.attendees, roles |-> events.roles]})
    \cup {[attendees |-> indexEvent.attendees, roles |-> indexEvent.roles]}

AllAttendees == UNION {SeqToSet(r.attendees) : r \in Rosters}

\* C1: an attendee whose RSVP status is not Attending (no response,
\* Tentative or Declined) has neither a primary role nor a sub-role.
C1_NonAttendingHasNoRole ==
    \A a \in AllAttendees :
        a.rsvpStatus # "Attending" => a.primaryRole = Null /\ a.className = Null

\* C2: an attendee with a sub-role has a primary role.
C2_SubRoleImpliesPrimaryRole ==
    \A a \in AllAttendees : a.className # Null => a.primaryRole # Null

\* C3: an attendee's sub-role is one the catalog declares under the
\* attendee's current primary role.
C3_SubRoleDeclaredUnderPrimaryRole ==
    \A r \in Rosters : \A a \in SeqToSet(r.attendees) :
        a.className # Null =>
            /\ FindRole(r.roles, a.primaryRole) # NoObj
            /\ a.className \in ClassNames(FindRole(r.roles, a.primaryRole).classes)

\* C4: no committed update of an Event is lost: the stored row holds, for
\* every participant, the attendee record that participant's last committed
\* interaction wrote, whatever other interactions overlapped with it.
C4_NoLostUpdate ==
    db # NoRow =>
        \A u \in Users : acked[u] # NoObj => AttendeeOf(db.attendees, u) = acked[u]

-----------------------------------------------------------------------------
(* Lock claims *)

\* C5: at any instant at most one operator holds a live lock on the Event,
\* however the operators' acquire and release calls interleave.
C5_AtMostOneLiveLock ==
    Cardinality({l \in locks : lockClock < l.expiry}) <= 1

\* C5 witness: two acquire calls were handled at the same instant, one was
\* granted, the other refused, and the granted lock is live.
C5_ContendedAcquire ==
    \E a \in Operators, b \in Operators :
        /\ a # b
        /\ lastAcq[a].status = 200 /\ lastAcq[b].status = 423
        /\ lastAcq[a].at = lastAcq[b].at
        /\ \E l \in locks : l.holder = a /\ lockClock < l.expiry

\* C6: an acquire by B handled while another operator A's granted lock has
\* not expired fails with Locked (423), names A as the holder and leaves the
\* lock as it was.
C6_SecondAcquireIsLocked ==
    \A b \in Operators : \A l \in lastAcq[b].before :
        (l.holder # b /\ lastAcq[b].at < l.acquiredAt + TTL) =>
            /\ lastAcq[b].status = 423
            /\ lastAcq[b].holder = l.holder
            /\ lastAcq[b].after = lastAcq[b].before

\* C6 witness: B asked after A's lock was granted and before it expired, and
\* was answered Locked with holder A.
C6_RefusedWhileHeld ==
    \E b \in Operators : \E l \in lastAcq[b].before :
        /\ l.holder # b
        /\ l.acquiredAt < lastAcq[b].at /\ lastAcq[b].at < l.acquiredAt + TTL
        /\ lastAcq[b].status = 423 /\ lastAcq[b].holder = l.holder

\* C7: an acquire by B handled when every other operator's lock was granted
\* TTL or more ago (and not renewed) succeeds, and B is then the one holder
\* of a live lock: a lock is live exactly while now < expiry.
C7_ExpiredLockIsReclaimed ==
    \A b \in Operators :
        (/\ lastAcq[b].status # 0
         /\ \A l \in lastAcq[b].before :
                l.holder # b => lastAcq[b].at >= l.acquiredAt + TTL) =>
            /\ lastAcq[b].status = 200
            /\ {l.holder : l \in {k \in lastAcq[b].after : lastAcq[b].at < k.expiry}} = {b}

\* C7 witness: A's lock was granted, A did not renew it, and B's acquire
\* more than TTL later was granted.
C7_ReclaimedAfterTTL ==
    \E b \in Operators : \E l \in lastAcq[b].before :
        /\ l.holder # b
        /\ lastAcq[b].at > l.acquiredAt + TTL
        /\ lastAcq[b].status = 200

-----------------------------------------------------------------------------
(* Scheduler claims *)

\* C8: for the Event, opening the thread and deleting it are each done
\* exactly once and not before the target time (start minus lead time; 00:01
\* of the day after the end), whatever restarts happen: neither is done twice,
\* neither is done early, and a running process with no timer left for an
\* action whose target time has come has done it.
C8_EachActionOnceNotEarly ==
    db # NoRow =>
        /\ Len(openLog) <= 1 /\ Len(closeLog) <= 1
        /\ \A i \in 1..Len(openLog) : openLog[i].at >= openTimeOf(db)
        /\ \A i \in 1..Len(closeLog) : closeLog[i].at >= deleteTimeOf(db)
        /\ (up /\ now >= openTimeOf(db) /\ ~\E t \in timers : t.kind = "open")
                => Len(openLog) = 1
        /\ (up /\ now >= deleteTimeOf(db) /\ timers = {}) => Len(closeLog) = 1

\* C9: after a restart that finds the stored Event's thread open and its
\* close time in the future, the close timer is set for the close time (it
\* does not run at once), and from then on the thread deletion is done at
\* most once, at the close time.
C9_CloseRescheduledOnce ==
    (recovery.ran /\ recovery.venueOpen /\ recovery.closeDue > recovery.at) =>
        /\ Len(closeLog) - recovery.closes <= 1
        /\ \A i \in (recovery.closes + 1)..Len(closeLog) :
                closeLog[i].at = recovery.closeDue
        /\ (up /\ Len(closeLog) = recovery.closes) =>
                \E t \in timers : t.kind = "close" /\ t.at = recovery.closeDue

\* C10: after a restart that loads an Event whose thread was never opened,
\* the process holds an open timer for it: set for start minus lead time when
\* that is in the future, due at once when it has passed, for every lead
\* time, zero included.
C10_RestartLeavesOpenAction ==
    (recovery.ran /\ recovery.loaded /\ up /\ db # NoRow /\ Len(openLog) = 0) =>
        \E t \in timers : /\ t.kind = "open"
                          /\ t.at = Max(openTimeOf(db), recovery.at)

\* C11: after a restart that finds the stored Event's thread open and its
\* close time already passed, the close action is done at once: the thread
\* has been deleted at the time of the restart, or a close timer due at that
\* time is pending.
C11_PastCloseFiresAtOnce ==
    (recovery.ran /\ recovery.venueOpen /\ recovery.closeDue <= recovery.at /\ up) =>
        \/ \E i \in (recovery.closes + 1)..Len(closeLog) :
                closeLog[i].at = recovery.at
        \/ \E t \in timers : t.kind = "close" /\ t.at = recovery.at

\* C12: a timer whose fire time has passed when it is scheduled is not
\* dropped and fires at once: the open timer handleCreateEvent sets, and the
\* close timer a completed open callback sets, are due at their target time
\* when that is still to come and at the time of scheduling when it has
\* passed, and the clock of a running process does not pass a due timer.
C12_PastTimerFiresAtOnce ==
    [][/\ (db = NoRow /\ db' # NoRow) =>
            \E t \in timers' :
                /\ t.kind = "open"
                /\ t.at = IF openTimeOf(db') > now THEN openTimeOf(db') ELSE now
       /\ (Len(attempts') > Len(attempts) /\ attempts'[Len(attempts')].outcome = "done") =>
            \E t \in timers' :
                /\ t.kind = "close"
                /\ t.threadId = attempts'[Len(attempts')].threadId
                /\ t.at = IF deleteTimeOf(t) > now THEN deleteTimeOf(t) ELSE now
       /\ (up /\ now' > now) => \A t \in timers : t.at > now
      ]_vars

\* C12 witness: the Event was created after its open time (start minus lead
\* time) had passed, and the thread was opened at the time of the creation.
C12_OpenedLate ==
    /\ ~recovery.ran /\ db # NoRow
    /\ Len(openLog) = 1 /\ openLog[1].at > openTimeOf(db)
    /\ attempts[1].outcome = "done"

\* C13: deleting the Event cancels its timers: once the Event is deleted no
\* timer callback runs for it, no thread is created for it and none is
\* deleted by a timer.
C13_DeletionCancelsTimers ==
    deletion.done =>
        /\ Len(attempts) = deletion.attempts
        /\ Len(openLog) = deletion.opens
        /\ Len(closeLog) = deletion.closes

\* C14: a timer callback acts on the Event as it is when the callback runs:
\* the open callback creates no thread for an Event that has a thread at
\* that moment, and the close callback deletes no thread other than the one
\* the Event has at that moment.
C14_CallbackReadsCurrentEvent ==
    \A i \in 1..Len(attempts) :
        /\ (attempts[i].kind = "open" /\ attempts[i].venue # NoThread) =>
                attempts[i].threadId = NoThread
        /\ (attempts[i].kind = "close" /\ attempts[i].outcome # "notFound") =>
                attempts[i].threadId = attempts[i].venue

C17_FailedOpenNotRetried ==
    \A i \in 1..Len(attempts) : \A j \in (i + 1)..Len(attempts) :
        (attempts[i].kind = "open" /\ attempts[i].outcome = "error")
            => attempts[j].kind # "open"

-----------------------------------------------------------------------------
(* Selection claims *)

\* C18: a primary-role selection whose role name is not in the Event's
\* catalog, or whose role requires a certification the member does not hold
\* when selecting (Commander, Recon), is answered InvalidRole and writes no
\* attendee record.
C18_InvalidRoleRefused ==
    db # NoRow => \A u \in Users :
        (/\ selection[u].menu = "select_role"
         /\ selection[u].before # NoObj
         /\ \/ selection[u].value \notin RoleNames(db.roles)
            \/ /\ selection[u].value = "Commander"
               /\ ~HasRole(selection[u].member, CMDR_CERTIFIED_ROLE_ID)
            \/ /\ selection[u].value = "Recon"
               /\ ~HasRole(selection[u].member, RECON_CERTIFIED_ROLE_ID))
        => selection[u].reply = "InvalidRole" /\ selection[u].stored = NoObj

\* C19: a sub-role selection whose sub-role the catalog does not declare
\* under the attendee's current primary role, or whose sub-role requires a
\* certification the member does not hold when selecting (Officer, Tank
\* Commander), is answered InvalidSubRole and writes no attendee record.
C19_InvalidSubRoleRefused ==
    db # NoRow => \A u \in Users :
        (/\ selection[u].menu = "select_class"
         /\ selection[u].before # NoObj
         /\ \/ FindRole(db.roles, selection[u].before.primaryRole) = NoObj
            \/ selection[u].value \notin
                    ClassNames(FindRole(db.roles, selection[u].before.primaryRole).classes)
            \/ /\ selection[u].value = "Officer"
               /\ ~HasRole(selection[u].member, SL_CERTIFIED_ROLE_ID)
            \/ /\ selection[u].value = "Tank Commander"
               /\ ~HasRole(selection[u].member, TC_CERTIFIED_ROLE_ID))
        => selection[u].reply = "InvalidSubRole" /\ selection[u].stored = NoObj

\* C20: a primary-role selection that succeeds stores the chosen primary
\* role on the attendee.  If the role declares no sub-roles the attendee is
\* confirmed with the role's emoji; if it declares sub-roles (Infantry and
\* Armour alike) the attendee is stored with that primary role and no
\* sub-role, and the sub-role menu is shown.
C20_PrimaryRoleStored ==
    db # NoRow => \A u \in Users :
        (/\ selection[u].menu = "select_role"
         /\ selection[u].state = "done"
         /\ selection[u].reply \notin {"NotFound", "Error"}
         /\ FindRole(db.roles, selection[u].value) # NoObj)
        => LET role == FindRole(db.roles, selection[u].value)
               stored == selection[u].stored
           IN /\ stored # NoObj
              /\ stored.primaryRole = selection[u].value
              /\ stored.className = Null
              /\ stored.rsvpStatus = "Attending"
              /\ IF Len(role.classes) = 0
                 THEN selection[u].reply = "Confirmed" /\ stored.emoji = role.emoji
                 ELSE selection[u].reply = "ClassPrompt"

-----------------------------------------------------------------------------
(* Refusal, the Attending-Infantry-Rifleman scenario, failures after the   *)
(* UPDATE.                                                                 *)

\* C21: an RSVP on an access-restricted Event by a member who holds none of
\* the required roles is answered Forbidden, writes nothing, and leaves the
\* row without a response of that member.
C21_ForbiddenRecordsNothing ==
    db # NoRow => \A u \in Users :
        (/\ selection[u].menu = "rsvp"
         /\ db.restrictedRoles # {}
         /\ selection[u].member \cap db.restrictedRoles = {})
        => /\ selection[u].reply = "Forbidden"
           /\ selection[u].state = "done"
           /\ selection[u].writes = 0
           /\ selection[u].stored = NoObj
           /\ AttendeeOf(db.attendees, u) = NoObj

\* C21 witness: Q, who holds no role, has clicked a button of the restricted
\* Event and was refused, after P's response was stored.
C21_RefusedOnRestrictedEvent ==
    /\ db # NoRow /\ db.restrictedRoles = {EventRoleId}
    /\ selection["Q"].menu = "rsvp" /\ selection["Q"].reply = "Forbidden"
    /\ AttendeeOf(db.attendees, "P") # NoObj

\* C22: a member who is Attending with primary role Infantry and picks
\* Rifleman in the class menu is confirmed and stored as Attending,
\* Infantry, Rifleman, with the emoji the catalog gives Rifleman.
C22_InfantryRiflemanConfirmed ==
    \A u \in Users :
        (/\ selection[u].menu = "select_class"
         /\ selection[u].value = "Rifleman"
         /\ selection[u].state = "done"
         /\ selection[u].before # NoObj
         /\ selection[u].before.rsvpStatus = "Attending"
         /\ selection[u].before.primaryRole = "Infantry")
        => /\ selection[u].reply = "Confirmed"
           /\ selection[u].stored # NoObj
           /\ selection[u].stored.userId = u
           /\ selection[u].stored.rsvpStatus = "Attending"
           /\ selection[u].stored.primaryRole = "Infantry"
           /\ selection[u].stored.className = "Rifleman"
           /\ \E r \in SeqToSet(defaultPrimaryRoles) :
                 /\ r.primaryRole = "Infantry"
                 /\ \E c \in SeqToSet(r.classes) :
                       /\ c.className = "Rifleman"
                       /\ selection[u].stored.emoji = c.emoji

\* C22 witness: P pressed Accept, picked Infantry, picked Rifleman, and the
\* row holds P as Infantry Rifleman.
C22_RiflemanStored ==
    /\ selection["P"].menu = "select_class" /\ selection["P"].value = "Rifleman"
    /\ selection["P"].state = "done"
    /\ selection["P"].before # NoObj
    /\ selection["P"].before.primaryRole = "Infantry"
    /\ selection["P"].before.className = Null
    /\ db # NoRow /\ AttendeeOf(db.attendees, "P") # NoObj
    /\ AttendeeOf(db.attendees, "P").className = "Rifleman"

\* C23: a member stored as Attending with a primary role who then presses
\* Decline is stored as Declined with primary role and class null, and if
\* the Event's thread was open the member is no longer in it (the call that
\* removes the member not having failed).
C23_DeclineClearsRolesAndLeavesVenue ==
    \A u \in Users :
        (/\ selection[u].menu = "rsvp" /\ selection[u].value = "decline"
         /\ selection[u].state = "done"
         /\ selection[u].side # "member"
         /\ selection[u].before # NoObj
         /\ selection[u].before.rsvpStatus = "Attending"
         /\ selection[u].before.primaryRole # Null)
        => /\ selection[u].stored # NoObj
           /\ selection[u].stored.rsvpStatus = "Declined"
           /\ selection[u].stored.primaryRole = Null
           /\ selection[u].stored.className = Null
           /\ db # NoRow /\ AttendeeOf(db.attendees, u) = selection[u].stored
           /\ selection[u].venue # NoThread
                 => <<selection[u].venue, u>> \notin threadMembers

\* C23 witness: P, stored as Infantry Rifleman and a member of the open
\* thread, pressed Decline and the response was stored.
C23_DeclinedAfterRifleman ==
    /\ selection["P"].menu = "rsvp" /\ selection["P"].value = "decline"
    /\ selection["P"].state = "done"
    /\ selection["P"].before # NoObj
    /\ selection["P"].before.className = "Rifleman"
    /\ selection["P"].venue # NoThread /\ selection["P"].inVenue

\* C24: when a call made after the UPDATE fails (adding the member to the
\* thread, removing the member, editing a roster message), the attendee
\* stays stored as written and the interaction is not answered with an
\* error.
C24_SideFailureSwallowed ==
    \A u \in Users :
        (/\ selection[u].menu # "none"
         /\ selection[u].state = "done"
         /\ selection[u].writes = 1
         /\ selection[u].side # "none")
        => /\ db # NoRow /\ AttendeeOf(db.attendees, u) = selection[u].stored
           /\ ~selection[u].error

\* C25: an UPDATE of the attendees that fails is tried a second time, and
\* only that once, after the Event was read again; if the second try fails
\* too, the failure is reported to the member.
C25_FailedWriteRetriedOnceThenSurfaced ==
    \A u \in Users :
        (selection[u].menu # "none" /\ selection[u].state = "failed")
        => selection[u].writes = 2 /\ selection[u].error

-----------------------------------------------------------------------------
(* The dashboard: release, the lock guard, the squads.                     *)

\* C26: a release by an operator clears that operator's lock and no other:
\* every lock of another operator stays as it was, nothing is added, and the
\* call is answered with success also when the operator held no lock or
\* held one that had expired.
C26_ReleaseClearsOwnLockOnly ==
    \A op \in Operators :
        lastCall[op].call = "release"
        => /\ lastCall[op].status = 200
           /\ lastCall[op].kept
           /\ lastCall[op].cleared

\* C26 witness: an operator released while the other held a live lock, which
\* stayed in place, and the other operator's release came after its own
\* lock had expired.
C26_ReleasedByOther ==
    \E a, b \in Operators :
        /\ a # b
        /\ lastCall[b].call = "release"
        /\ lastCall[b].other /\ lastCall[b].kept
        /\ lastCall[a].call = "release"
        /\ lastCall[a].own = "expired" /\ lastCall[a].status = 200

\* C27: a roster-editing call (build-squads, refresh-roster, role change,
\* move) is answered with success or changes the stored squads only if the
\* caller held the Event's live lock when it was made; an operator whose
\* acquire was refused changes nothing.
C27_EditsNeedLiveLock ==
    \A op \in Operators :
        lastCall[op].call \in EditCalls
        => /\ lastCall[op].status = 200 => lastCall[op].held
           /\ lastCall[op].applied => lastCall[op].held

\* C27 witness: an operator whose acquire was answered 423 tried an edit
\* without holding the lock and was refused, and the edit of the operator
\* who held the lock changed the squads.
C27_RefusedWithoutLock ==
    \E a, b \in Operators :
        /\ a # b
        /\ lastAcq[b].status = 423
        /\ lastCall[b].call \in EditCalls
        /\ ~lastCall[b].held /\ lastCall[b].status = 423 /\ ~lastCall[b].applied
        /\ lastCall[a].call \in EditCalls
        /\ lastCall[a].held /\ lastCall[a].applied

-----------------------------------------------------------------------------
(* The thread fields of the Event.                                         *)

\* C30: in the row and in the cache entry, the Event's thread id and the
\* time its thread was opened are both null or both set.
C30_ThreadFieldsPaired ==
    /\ db # NoRow => (db.threadId = NoThread <=> db.threadOpenedAt = NoTime)
    /\ events # NoRow =>
          (events.threadId = NoThread <=> events.threadOpenedAt = NoTime)

\* C30 witness: the Event's thread was opened, which set both fields, and
\* later deleted by the close callback, which has cleared both.
C30_OpenedThenCleared ==
    /\ Len(openLog) >= 1 /\ Len(closeLog) >= 1
    /\ \E i \in 1..Len(attempts) :
          /\ attempts[i].kind = "close" /\ attempts[i].outcome = "deleted"
          /\ attempts[i].venue # NoThread
    /\ db # NoRow /\ db.threadId = NoThread /\ db.threadOpenedAt = NoTime

-----------------------------------------------------------------------------
(* The Event from creation to deletion.                                    *)

\* C31: every stored Event starts before it ends, after its creation and
\* after every edit.
C31_StartBeforeEnd ==
    db # NoRow => db.startTime < db.endTime

\* C32: an operator who was granted the lock and renews it on time once per
\* heartbeat interval keeps a live lock: no acquire by another operator is
\* granted while that operator's heartbeat runs and its lock is in the table.
C32_HeartbeatKeepsLock ==
    \A b \in Operators : \A l \in lastAcq[b].before :
        (l.holder # b /\ client[l.holder].lockInterval) =>
            lastAcq[b].status # 200

\* C33: whenever the Event's thread is open and no interaction on the Event
\* is in flight, the members of the thread are exactly the users whose
\* stored attendee record is Attending.
C33_VenueMirrorsAttending ==
    (/\ db # NoRow /\ db.threadId # NoThread /\ db.threadOpenedAt # NoTime
     /\ db.threadId \in guildThreads
     /\ \A u \in Users : inflight[u].pc = "idle") =>
        {u \in Users : <<db.threadId, u>> \in threadMembers}
            = {u \in Users : /\ AttendeeOf(db.attendees, u) # NoObj
                             /\ AttendeeOf(db.attendees, u).rsvpStatus = "Attending"}

\* C34: a role or class selection by a participant whose stored status is
\* Tentative or Declined writes an attendee record with that same status.
C34_SelectionKeepsStatus ==
    \A u \in Users :
        (/\ selection[u].menu \in {"select_role", "select_class"}
         /\ selection[u].before # NoObj
         /\ selection[u].before.rsvpStatus # "Attending"
         /\ selection[u].stored # NoObj) =>
            selection[u].stored.rsvpStatus = selection[u].before.rsvpStatus

\* C35: when no handler is running, the cached Event has the attendees of
\* the stored Event (same status, role, class and emoji each) and the same
\* thread fields.
C35_CacheEqualsStore ==
    (/\ \A u \in Users : inflight[u].pc = "idle"
     /\ db # NoRow /\ events # NoRow) =>
        /\ events.attendees = db.attendees
        /\ events.threadId = db.threadId
        /\ events.threadOpenedAt = db.threadOpenedAt
        /\ events.threadRosterMessageId = db.threadRosterMessageId

\* C36: the pending timers follow the Event's stored date and times: no open
\* timer of the running process is due before the open time computed from
\* the row, and no close timer before the row's deletion time.
C36_TimersFollowEdits ==
    (up /\ db # NoRow) =>
        \A t \in timers :
            /\ t.kind = "open" => t.at >= openTimeOf(db)
            /\ t.kind = "close" => t.at >= deleteTimeOf(db)

\* C37: when no run of handleEventSelection is under way, the page's one
\* interval, if any, renews the lock of the Event the dropdown shows, and
\* the operator holds no live lock on any other Event.
C37_HeartbeatOnSelectedEventOnly ==
    (\A i \in 1..Len(page.runs) : page.runs[i].pc = "done") =>
        /\ page.lockInterval \in {NoEvent, page.value}
        /\ \A e \in EventIds \ {page.value} :
                LiveLocks(eventLocks[e], lockClock) = {}

\* C38: when a close callback has run, the thread fields of the Event are
\* null in the row and in the cache entry, whether the thread was still
\* there or had been removed before.
C38_CloseClearsVenueFields ==
    [][(/\ Len(attempts') > Len(attempts)
        /\ attempts'[Len(attempts')].kind = "close") =>
          /\ db' # NoRow => db'.threadId = NoThread /\ db'.threadOpenedAt = NoTime
          /\ events' # NoRow =>
                events'.threadId = NoThread /\ events'.threadOpenedAt = NoTime]_vars

\* C39: the deletion of the Event's message deletes the Event from the
\* store and from the cache and, if the Event names a thread, that thread.
C39_MessageDeletionRemovesEventAndVenue ==
    [][messageDelete =>
          /\ db' = NoRow /\ events' = NoRow
          /\ db.threadId # NoThread => db.threadId \notin guildThreads']_vars

\* C40: a creation that fails after the INSERT leaves no Event in the store
\* and none in the cache, and sets no timer.
C40_FailedCreationLeavesNothing ==
    [][(/\ Len(attempts') > Len(attempts)
        /\ attempts'[Len(attempts')].kind = "create") =>
          /\ db' = NoRow /\ events' = NoRow
          /\ timers' = timers]_vars

=============================================================================
